---------------------------- MODULE Spec2Model ----------------------------
(***************************************************************************)
(* Export pipeline of the elevation-of-privilege server                    *)
(* (apps/server/src/endpoints.ts): the two export handlers                 *)
(* downloadThreatDragonModel (JSON) and downloadThreatsMarkdownFile        *)
(* (Markdown), the walks they run over the identified-threats index and    *)
(* the stored Threat Dragon document, and the Markdown formatter.          *)
(*                                                                         *)
(* Conventions.                                                            *)
(*  - A JavaScript object is a TLA+ record; a property that is absent or   *)
(*    undefined is a field that is not in the DOMAIN of the record.        *)
(*  - Free text (titles, descriptions, owners, file names) is a sequence   *)
(*    of one-character strings, so that trim, replace and escaping are     *)
(*    computed; identifiers and enumeration members that the code only     *)
(*    compares are TLA+ strings.                                           *)
(*  - An object used as an ordered map (identifiedThreats[i], and the      *)
(*    threats of one component) is a sequence of [key, val] entries with   *)
(*    distinct keys, in insertion order: the keys are uuids, never array   *)
(*    indices, so Object.keys / Object.values enumerate in that order.     *)
(*    An entry without val is a key whose value is undefined. A slot of    *)
(*    the index is Null or the object [entries |-> that sequence].         *)
(***************************************************************************)
EXTENDS Integers, Sequences, FiniteSets, TLC

VARIABLES
    store,      \* the match as the storage collaborator holds it
    orig,       \* the match as it was stored when the run started (history)
    nreq,       \* number of export requests issued in this run
    pc,         \* per request: "idle", "loaded" (after the await), "done"
    kind,       \* per request: "json" or "md" (which handler serves it)
    game,       \* per request: the object db.fetch returned (handler local)
    threats,    \* per request: result of getThreats (Markdown handler local)
    resp,       \* per request: the HTTP response
    shown,      \* the diagram the view shows (model.detail.diagrams[selected]), or Null
    origShown,  \* that diagram as it was before the view rendered it (history)
    graphs      \* what the renderings of the diagram gave, oldest first

viewVars == <<shown, origShown, graphs>>

vars == <<store, orig, nreq, pc, kind, game, threats, resp,
          shown, origShown, graphs>>

-----------------------------------------------------------------------------
(* Bounds *)

NumRequests == 2    \* export requests that may race on one match
MaxDiagrams == 2    \* diagrams of a document / slots of the index
MaxThreats == 2     \* gameplay threats recorded under one component
MaxText == 2        \* characters of a free text run through the escaping
NumRenders == 2     \* times the view renders the diagram it shows
MaxCells == 2       \* cells of a diagram of node cells

-----------------------------------------------------------------------------
(* Objects with optional properties *)

EmptyObj == <<>>

Has(o, f) == f \in DOMAIN o

\* o.f ?? d
OrElse(o, f, d) == IF f \in DOMAIN o THEN o[f] ELSE d

Without(o, fs) == [k \in DOMAIN o \ fs |-> o[k]]

\* the fragment { f: v } when v is defined, {} otherwise; v is passed as an
\* object that has the field "v" exactly when the value is defined
Defined(v) == [v |-> v]
Undefined == EmptyObj
Field(f, dv) == IF Has(dv, "v") THEN f :> dv.v ELSE EmptyObj

Null == [isNull |-> TRUE]

-----------------------------------------------------------------------------
(* Text *)

WhiteSpace == {" ", "\n", "\r", "\t"}
LineBreaks == {"\n", "\r"}
Digits == {"0", "1", "2", "3", "4", "5", "6", "7", "8", "9"}

DigitValue(c) ==
    CASE c = "0" -> 0 [] c = "1" -> 1 [] c = "2" -> 2 [] c = "3" -> 3
      [] c = "4" -> 4 [] c = "5" -> 5 [] c = "6" -> 6 [] c = "7" -> 7
      [] c = "8" -> 8 [] c = "9" -> 9

DigitChar(d) ==
    CASE d = 0 -> "0" [] d = 1 -> "1" [] d = 2 -> "2" [] d = 3 -> "3"
      [] d = 4 -> "4" [] d = 5 -> "5" [] d = 6 -> "6" [] d = 7 -> "7"
      [] d = 8 -> "8" [] d = 9 -> "9"

\* `${n}` for n >= 0
RECURSIVE NumberToString(_)
NumberToString(n) ==
    IF n < 10 THEN <<DigitChar(n)>>
    ELSE NumberToString(n \div 10) \o <<DigitChar(n % 10)>>

RECURSIVE TrimStart(_)
TrimStart(s) ==
    IF s # <<>> /\ Head(s) \in WhiteSpace THEN TrimStart(Tail(s)) ELSE s

RECURSIVE TrimEnd(_)
TrimEnd(s) ==
    IF s # <<>> /\ s[Len(s)] \in WhiteSpace
    THEN TrimEnd(SubSeq(s, 1, Len(s) - 1)) ELSE s

\* String.prototype.trim
Trim(s) == TrimEnd(TrimStart(s))

\* s.replace(c, t) with a string pattern: the first occurrence only
RECURSIVE ReplaceFirst(_, _, _)
ReplaceFirst(s, c, t) ==
    IF s = <<>> THEN <<>>
    ELSE IF Head(s) = c THEN t \o Tail(s)
    ELSE <<Head(s)>> \o ReplaceFirst(Tail(s), c, t)

\* s.replaceAll(c, t)
RECURSIVE ReplaceAll(_, _, _)
ReplaceAll(s, c, t) ==
    IF s = <<>> THEN <<>>
    ELSE (IF Head(s) = c THEN t ELSE <<Head(s)>>) \o ReplaceAll(Tail(s), c, t)

\* s.replace(/(\r|\n)+/gm, ' '): every run of line breaks becomes one space
RECURSIVE CollapseLineBreaks(_)
CollapseLineBreaks(s) ==
    IF s = <<>> THEN <<>>
    ELSE IF Head(s) \in LineBreaks
         THEN IF Tail(s) # <<>> /\ Head(Tail(s)) \in LineBreaks
              THEN CollapseLineBreaks(Tail(s))
              ELSE <<" ">> \o CollapseLineBreaks(Tail(s))
         ELSE <<Head(s)>> \o CollapseLineBreaks(Tail(s))

\* text.replace(/[![\]()]/gm, '\\$&'): a backslash before every match of the
\* character class cls
RECURSIVE EscapeClass(_, _)
EscapeClass(text, cls) ==
    IF text = <<>> THEN <<>>
    ELSE (IF Head(text) \in cls THEN <<"\\", Head(text)>> ELSE <<Head(text)>>)
         \o EscapeClass(Tail(text), cls)

\* faulty variant: the emphasis characters are escaped as well
escapeMarkdownTextEmphasis(text) ==
    ReplaceAll(ReplaceAll(EscapeClass(text, {"!", "[", "]", "(", ")", "*", "_"}),
                          "<", <<"&", "l", "t", ";">>),
               ">", <<"&", "g", "t", ";">>)

\* the three replace calls, in the order of the source
escapeMarkdownText(text) ==
    ReplaceAll(ReplaceAll(EscapeClass(text, {"!", "[", "]", "(", ")"}),
                          "<", <<"&", "l", "t", ";">>),
               ">", <<"&", "g", "t", ";">>)

\* Number.parseInt(s): leading white space, an optional sign, then the
\* longest prefix of decimal digits; NaN when there is no digit.
NaN == [nan |-> TRUE]

RECURSIVE DigitPrefixValue(_, _)
DigitPrefixValue(s, acc) ==
    IF s # <<>> /\ Head(s) \in Digits
    THEN DigitPrefixValue(Tail(s), 10 * acc + DigitValue(Head(s)))
    ELSE acc

ParseInt(s) ==
    LET t == TrimStart(s)
        neg == t # <<>> /\ Head(t) = "-"
        u == IF t # <<>> /\ Head(t) \in {"-", "+"} THEN Tail(t) ELSE t
    IN  IF u = <<>> \/ Head(u) \notin Digits THEN NaN
        ELSE [nan |-> FALSE,
              val |-> IF neg THEN 0 - DigitPrefixValue(u, 0)
                      ELSE DigitPrefixValue(u, 0)]

-----------------------------------------------------------------------------
(* Game modes, suits, roster *)

\* ModelType
THREAT_DRAGON == "Threat Dragon"
PRIVACY_ENHANCED == "Default"
IMAGE == "Image"

\* GameMode (an enum of @eop/shared whose members are display names): the
\* members getMethodologyName names, and one it does not
EOP ==
    <<"E", "l", "e", "v", "a", "t", "i", "o", "n", " ", "o", "f", " ",
      "P", "r", "i", "v", "i", "l", "e", "g", "e">>
CORNUCOPIA ==
    <<"O", "W", "A", "S", "P", " ", "C", "o", "r", "n", "u", "c", "o", "p", "i", "a">>
CUMULUS ==
    <<"O", "W", "A", "S", "P", " ", "C", "u", "m", "u", "l", "u", "s">>
OTHER_MODE ==
    <<"E", "l", "e", "v", "a", "t", "i", "o", "n", " ", "o", "f", " ",
      "M", "L", "S", "e", "c">>
GameModes == {EOP, CORNUCOPIA, CUMULUS, OTHER_MODE}

getMethodologyName(gameMode) ==
    IF gameMode = EOP THEN Defined(<<"S", "T", "R", "I", "D", "E">>)
    ELSE IF gameMode = CORNUCOPIA
         THEN Defined(<<"C", "o", "r", "n", "u", "c", "o", "p", "i", "a">>)
    ELSE IF gameMode = CUMULUS
         THEN Defined(<<"C", "u", "m", "u", "l", "u", "s">>)
    ELSE Undefined

\* SUITS, isSuit and getSuitDisplayName live in @eop/shared (cardDefinitions);
\* the card suits are single letters and the display name is a category name
\* that depends on the game mode and the suit.
Suits == {<<"E">>, <<"A">>}

isSuit(type) == type \in Suits

getSuitDisplayName(gameMode, dtype) ==
    IF Has(dtype, "v") /\ isSuit(dtype.v)
    THEN Defined(<<"c", "a", "t", "-">> \o dtype.v)
    ELSE Undefined

\* faulty variant: the roster is indexed from 1
PlayerNameFromOne(players, i) ==
    IF ~i.nan /\ i.val >= 1 /\ i.val <= Len(players)
       /\ Has(players[i.val], "name")
    THEN Defined(players[i.val].name)
    ELSE Undefined

\* metadata.players[i]?.name, players indexed from 0
PlayerName(players, i) ==
    IF ~i.nan /\ i.val >= 0 /\ i.val < Len(players)
       /\ Has(players[i.val + 1], "name")
    THEN Defined(players[i.val + 1].name)
    ELSE Undefined

\* t.owner !== undefined ? players[Number.parseInt(t.owner)]?.name : undefined
ResolveOwner(t, players) ==
    IF Has(t, "owner") THEN PlayerName(players, ParseInt(t.owner))
    ELSE Undefined

-----------------------------------------------------------------------------
(* getThreats: the flattened threat list of a report *)

\* faulty variant: the record is spread last and overrides the defaults
FlattenedThreatSpreadLast(threat, players) ==
    Without(threat, {"owner"})
    @@ Field("owner", ResolveOwner(threat, players))
    @@ [status |-> "NA",
        description |-> OrElse(threat, "description", <<>>),
        mitigation |-> OrElse(threat, "mitigation", <<>>),
        severity |-> OrElse(threat, "severity", <<"L", "o", "w">>),
        title |-> OrElse(threat, "title", <<>>),
        type |-> OrElse(threat, "type", <<>>)]

\* the object pushed for one gameplay threat
FlattenedThreat(threat, players) ==
    Field("owner", ResolveOwner(threat, players))
    @@ [status |-> "NA",
        description |-> OrElse(threat, "description", <<>>),
        mitigation |-> OrElse(threat, "mitigation", <<>>),
        severity |-> OrElse(threat, "severity", <<"L", "o", "w">>),
        title |-> OrElse(threat, "title", <<>>),
        type |-> OrElse(threat, "type", <<>>)]
    @@ Without(threat, {"owner"})

\* Object.values(identifiedThreats[componentId]).forEach(push)
ComponentThreats(entry, players) ==
    IF Has(entry, "val")
    THEN [k \in 1..Len(entry.val) |-> FlattenedThreat(entry.val[k].val, players)]
    ELSE <<>>

\* Object.keys(identifiedThreats).forEach(...)
RECURSIVE SlotThreats(_, _)
SlotThreats(entries, players) ==
    IF entries = <<>> THEN <<>>
    ELSE ComponentThreats(Head(entries), players)
         \o SlotThreats(Tail(entries), players)

\* gameState.G.identifiedThreats.forEach(...)
RECURSIVE GameThreats(_, _)
GameThreats(identifiedThreats, players) ==
    IF identifiedThreats = <<>> THEN <<>>
    ELSE (IF Head(identifiedThreats) # Null
          THEN SlotThreats(Head(identifiedThreats).entries, players) ELSE <<>>)
         \o GameThreats(Tail(identifiedThreats), players)

\* const t = cell.data?.threats; if (Array.isArray(t) && t.length) push(...t)
CellThreats(cell) ==
    IF Has(cell, "data") /\ Has(cell.data, "threats") THEN cell.data.threats
    ELSE <<>>

\* diagram.cells?.forEach(...)
RECURSIVE CellsThreats(_)
CellsThreats(cells) ==
    IF cells = <<>> THEN <<>>
    ELSE CellThreats(Head(cells)) \o CellsThreats(Tail(cells))

DiagramThreats(diagram) ==
    IF Has(diagram, "cells") THEN CellsThreats(diagram.cells) ELSE <<>>

\* model.detail.diagrams.forEach(...)
RECURSIVE ModelThreats(_)
ModelThreats(diagrams) ==
    IF diagrams = <<>> THEN <<>>
    ELSE DiagramThreats(Head(diagrams)) \o ModelThreats(Tail(diagrams))

\* faulty variant: the document's threats come first
getThreatsDocumentFirst(G, players, model) ==
    (IF model # Null THEN ModelThreats(model.detail.diagrams) ELSE <<>>)
    \o GameThreats(G.identifiedThreats, players)

\* model is Null or a document
getThreats(G, players, model) ==
    GameThreats(G.identifiedThreats, players)
    \o (IF model # Null THEN ModelThreats(model.detail.diagrams) ELSE <<>>)

-----------------------------------------------------------------------------
(* The merge walk of downloadThreatDragonModel *)

\* faulty variant: the severity default of getThreats
MergedThreatLowSeverity(t, ctx) ==
    Field("modelType", getMethodologyName(ctx.gameMode))
    @@ Field("type", getSuitDisplayName(ctx.gameMode,
                        IF Has(t, "type") THEN Defined(t.type) ELSE Undefined))
    @@ Field("owner", ResolveOwner(t, ctx.players))
    @@ Field("id", IF Has(t, "id") THEN Defined(t.id) ELSE Undefined)
    @@ [description |-> OrElse(t, "description", <<>>),
        mitigation |-> OrElse(t, "mitigation", <<>>),
        severity |-> OrElse(t, "severity", <<"L", "o", "w">>),
        status |-> "Open",
        title |-> OrElse(t, "title", <<>>),
        game |-> ctx.matchID]

\* the object pushed for one gameplay threat; ctx carries state.G.gameMode,
\* game.metadata.players and matchID
MergedThreat(t, ctx) ==
    Field("modelType", getMethodologyName(ctx.gameMode))
    @@ Field("type", getSuitDisplayName(ctx.gameMode,
                        IF Has(t, "type") THEN Defined(t.type) ELSE Undefined))
    @@ Field("owner", ResolveOwner(t, ctx.players))
    @@ Field("id", IF Has(t, "id") THEN Defined(t.id) ELSE Undefined)
    @@ [description |-> OrElse(t, "description", <<>>),
        mitigation |-> OrElse(t, "mitigation", <<>>),
        severity |-> OrElse(t, "severity", <<>>),
        status |-> "Open",
        title |-> OrElse(t, "title", <<>>),
        game |-> ctx.matchID]

\* faulty variant: no default for a cell without threats
ExistingThreatsNoDefault(data) ==
    IF Has(data, "threats") THEN Defined(data.threats) ELSE Undefined

\* const existing: ThreatV2[] = cell.data.threats ?? []
ExistingThreats(data) == Defined(OrElse(data, "threats", <<>>))

\* faulty variant: the gameplay threats replace the list
PushThreatsReplacing(existing, threatsInGame, ctx) ==
    [k \in 1..Len(threatsInGame) |-> MergedThreat(threatsInGame[k].val, ctx)]

\* Object.values(threatsInGame).forEach((t) => existing.push({...}))
PushThreats(existing, threatsInGame, ctx) ==
    existing
    \o [k \in 1..Len(threatsInGame) |-> MergedThreat(threatsInGame[k].val, ctx)]

\* existing.some((x) => x.status === 'Open')
SomeOpen(list) ==
    \E k \in 1..Len(list) : Has(list[k], "status") /\ list[k].status = "Open"

\* faulty variant: the flag is recomputed from the list alone
HasOpenThreatsRecomputed(data, existing) == SomeOpen(existing)

\* cell.data.hasOpenThreats || existing.some(...)
HasOpenThreats(data, existing) ==
    OrElse(data, "hasOpenThreats", FALSE) \/ SomeOpen(existing)

\* the two assignments to cell.data
MergedData(data, existing) ==
    [threats |-> existing, hasOpenThreats |-> HasOpenThreats(data, existing)]
    @@ data

\* diagram.cells?.find((c) => c.id === componentId): its position, 0 if none
FindCell(diagram, componentId) ==
    IF Has(diagram, "cells")
       /\ \E k \in 1..Len(diagram.cells) : diagram.cells[k].id = componentId
    THEN CHOOSE k \in 1..Len(diagram.cells) :
            /\ diagram.cells[k].id = componentId
            /\ \A j \in 1..(k - 1) : diagram.cells[j].id # componentId
    ELSE 0

\* faulty variant: a component that matches no cell is not skipped, and the
\* read of cell.data throws
MergeComponentUnguarded(diagram, entry, ctx) ==
    LET k == FindCell(diagram, entry.key)
        cell == diagram.cells[k]
        pushed == PushThreats(OrElse(cell.data, "threats", <<>>), entry.val, ctx)
    IN  IF k = 0 THEN [raised |-> TRUE, diagram |-> diagram]
        ELSE IF ~Has(entry, "val") THEN [raised |-> FALSE, diagram |-> diagram]
        ELSE IF ~Has(cell, "data") THEN [raised |-> TRUE, diagram |-> diagram]
        ELSE [raised |-> FALSE,
              diagram |-> [diagram EXCEPT
                  !.cells[k].data = MergedData(cell.data, pushed)]]

\* One pass of the Object.keys(threatsForComponent).forEach callback. The
\* result is [raised, diagram]: raised when the callback throws a TypeError
\* (a property read of undefined), diagram as the callback left it.
MergeComponent(diagram, entry, ctx) ==
    LET k == FindCell(diagram, entry.key)
        cell == diagram.cells[k]
        existing == ExistingThreats(cell.data)
        pushed == PushThreats(existing.v, entry.val, ctx)
    IN  IF k = 0 THEN [raised |-> FALSE, diagram |-> diagram]
        ELSE IF ~Has(entry, "val") THEN [raised |-> FALSE, diagram |-> diagram]
        ELSE IF ~Has(cell, "data") THEN [raised |-> TRUE, diagram |-> diagram]
        ELSE IF ~Has(existing, "v") THEN [raised |-> TRUE, diagram |-> diagram]
        ELSE [raised |-> FALSE,
              diagram |-> [diagram EXCEPT
                  !.cells[k].data = MergedData(cell.data, pushed)]]

RECURSIVE MergeSlot(_, _, _)
MergeSlot(diagram, entries, ctx) ==
    IF entries = <<>> THEN [raised |-> FALSE, diagram |-> diagram]
    ELSE LET first == MergeComponent(diagram, Head(entries), ctx)
         IN  IF first.raised THEN first
             ELSE MergeSlot(first.diagram, Tail(entries), ctx)

\* state.G.identifiedThreats.forEach((threatsForComponent, diagramIdx) => ...)
\* from slot idx on (slots and diagrams are numbered from 1 here, from 0 in
\* the code). The result is [raised, diagrams].
RECURSIVE MergeIndex(_, _, _, _)
MergeIndex(diagrams, identifiedThreats, idx, ctx) ==
    IF idx > Len(identifiedThreats) THEN [raised |-> FALSE, diagrams |-> diagrams]
    ELSE IF identifiedThreats[idx] = Null \/ idx > Len(diagrams)
         THEN MergeIndex(diagrams, identifiedThreats, idx + 1, ctx)
    ELSE LET slot == MergeSlot(diagrams[idx], identifiedThreats[idx].entries, ctx)
             next == [diagrams EXCEPT ![idx] = slot.diagram]
         IN  IF slot.raised THEN [raised |-> TRUE, diagrams |-> next]
             ELSE MergeIndex(next, identifiedThreats, idx + 1, ctx)

-----------------------------------------------------------------------------
(* The Markdown report *)

enrichThreatWithCategory(threat, gameMode) ==
    IF Has(threat, "type") /\ threat.type # <<>>
    THEN Field("category",
               IF isSuit(threat.type)
               THEN getSuitDisplayName(gameMode, Defined(threat.type))
               ELSE Defined(threat.type))
         @@ Without(threat, {"category"})
    ELSE threat

\* threat.title?.trim() ?? 'No title given'
ReportTitle(threat) ==
    IF Has(threat, "title") THEN Trim(threat.title)
    ELSE <<"N", "o", " ", "t", "i", "t", "l", "e", " ", "g", "i", "v", "e", "n">>

NoMitigation ==
    <<"N", "o", " ", "m", "i", "t", "i", "g", "a", "t", "i", "o", "n", " ",
      "p", "r", "o", "v", "i", "d", "e", "d", ".">>

\* faulty variant: an empty mitigation is suppressed like the sentinel
MitigationShownNonEmpty(threat) ==
    Has(threat, "mitigation") /\ threat.mitigation # NoMitigation
    /\ threat.mitigation # <<>>

\* 'mitigation' in threat && threat.mitigation !== undefined &&
\* threat.mitigation !== `No mitigation provided.`
MitigationShown(threat) ==
    Has(threat, "mitigation") /\ threat.mitigation # NoMitigation

\* the lines of one block; index counts from 0
formatSingleThreat(threat, index) ==
    <<NumberToString(index + 1) \o <<".", " ", "*", "*">>
      \o escapeMarkdownText(ReportTitle(threat)) \o <<"*", "*">> >>
    \o (IF Has(threat, "category")
        THEN << <<" ", " ", " ", " ", "-", " ", "*", "C", "a", "t", "e", "g",
                  "o", "r", "y", ":", "*", " ">>
                \o escapeMarkdownText(threat.category) >>
        ELSE <<>>)
    \o (IF Has(threat, "severity")
        THEN << <<" ", " ", " ", " ", "-", " ", "*", "S", "e", "v", "e", "r",
                  "i", "t", "y", ":", "*", " ">>
                \o escapeMarkdownText(threat.severity) >>
        ELSE <<>>)
    \o (IF Has(threat, "owner")
        THEN << <<" ", " ", " ", " ", "-", " ", "*", "A", "u", "t", "h", "o",
                  "r", ":", "*", " ">>
                \o escapeMarkdownText(threat.owner) >>
        ELSE <<>>)
    \o (IF Has(threat, "description")
        THEN << <<" ", " ", " ", " ", "-", " ", "*", "D", "e", "s", "c", "r",
                  "i", "p", "t", "i", "o", "n", ":", "*", " ">>
                \o escapeMarkdownText(CollapseLineBreaks(threat.description)) >>
        ELSE <<>>)
    \o (IF MitigationShown(threat)
        THEN << <<" ", " ", " ", " ", "-", " ", "*", "M", "i", "t", "i", "g",
                  "a", "t", "i", "o", "n", ":", "*", " ">>
                \o escapeMarkdownText(CollapseLineBreaks(threat.mitigation)) >>
        ELSE <<>>)

\* lines.join('\n')
RECURSIVE JoinLines(_)
JoinLines(lines) ==
    IF lines = <<>> THEN <<>>
    ELSE IF Len(lines) = 1 THEN lines[1]
    ELSE lines[1] \o <<"\n">> \o JoinLines(Tail(lines))

\* faulty variant: the blocks are numbered with the index itself
formatThreatsFromZero(list, date) ==
    <<"T", "h", "r", "e", "a", "t", "s", " ">> \o date \o <<"\n">>
    \o <<"=", "=", "=", "=", "=", "=", "=">> \o <<"\n">>
    \o <<"\n">>
    \o JoinLines([k \in 1..Len(list) |->
                    JoinLines(formatSingleThreat(list[k], k - 2))])
    \o <<"\n">>

\* the template literal of formatThreats; map passes the 0-based index
formatThreats(list, date) ==
    <<"T", "h", "r", "e", "a", "t", "s", " ">> \o date \o <<"\n">>
    \o <<"=", "=", "=", "=", "=", "=", "=">> \o <<"\n">>
    \o <<"\n">>
    \o JoinLines([k \in 1..Len(list) |->
                    JoinLines(formatSingleThreat(list[k], k - 1))])
    \o <<"\n">>

-----------------------------------------------------------------------------
(* The export handlers *)

Requests == 1..NumRequests

\* new Date().toISOString() and new Date().toLocaleString(): the clock is
\* not modelled, every request reads the same instant
IsoNow ==
    <<"2", "0", "2", "6", "-", "1", "1", "-", "0", "1", "T", "1", "0", ":",
      "2", "0", ":", "3", "0", ".", "0", "0", "0", "Z">>
LocaleNow ==
    <<"1", "1", "/", "1", "/", "2", "0", "2", "6", ",", " ", "1", "0", ":",
      "2", "0", ":", "3", "0", " ", "A", "M">>

\* gameServer.db.fetch(matchID, {state, metadata, model}): the storage
\* collaborator hands every request its own snapshot of the match
DbFetch(match) == match

\* faulty variant: the export stores the merged document
StoreAfterExportWriteBack(match, merged) == [match EXCEPT !.model = merged]

\* what the storage holds after a JSON export that produced `merged`: neither
\* handler calls db.setModel
StoreAfterExport(match, merged) == match

\* state.G.modelType == PRIVACY_ENHANCED || state.G.modelType == THREAT_DRAGON
isJsonModel(G) == G.modelType \in {PRIVACY_ENHANCED, THREAT_DRAGON}

\* faulty variant: only a missing model is rejected
JsonExportRejectedNullOnly(g) == g.model = Null

\* !model || 'extension' in model || !isJsonModel
JsonExportRejected(g) ==
    g.model = Null \/ Has(g.model, "extension") \/ ~isJsonModel(g.G)

\* isJsonModel && model && !('extension' in model)
IsStructured(g) ==
    isJsonModel(g.G) /\ g.model # Null /\ ~Has(g.model, "extension")

JsonFilename(model) ==
    ReplaceFirst(model.summary.title, " ", <<"-">>) \o <<"-">>
    \o ReplaceFirst(IsoNow, ":", <<"-">>) \o <<".", "j", "s", "o", "n">>

\* faulty variant: the spaces of the title are removed
MarkdownSlugSpacesRemoved(g) ==
    IF IsStructured(g)
    THEN ReplaceAll(Trim(g.model.summary.title), " ", <<>>)
    ELSE IF Has(g.G, "gameMode") /\ g.G.gameMode # <<>>
         THEN ReplaceAll(Trim(g.G.gameMode), " ", <<>>)
         ELSE <<>>

\* modelTitle of downloadThreatsMarkdownFile
MarkdownSlug(g) ==
    IF IsStructured(g)
    THEN ReplaceAll(Trim(g.model.summary.title), " ", <<"-">>)
    ELSE IF Has(g.G, "gameMode") /\ g.G.gameMode # <<>>
         THEN ReplaceAll(Trim(g.G.gameMode), " ", <<>>)
         ELSE <<>>

MarkdownFilename(g) ==
    <<"t", "h", "r", "e", "a", "t", "s", "-">> \o MarkdownSlug(g) \o <<"-">>
    \o ReplaceAll(IsoNow, ":", <<"-">>) \o <<".", "m", "d">>

\* state.G.gameMode, undefined for a game state without game mode
GameModeOf(G) == IF Has(G, "gameMode") THEN G.gameMode ELSE Undefined

MergeContext(g) ==
    [gameMode |-> GameModeOf(g.G), players |-> g.players, matchID |-> g.matchID]

\* a value that has the properties the handler reads of a document; reading
\* them of anything else (null, the image placeholder) throws a TypeError
IsDocument(model) == Has(model, "summary") /\ Has(model, "detail")

\* the walk over the fetched model (the forEach that updates the model)
MergeWalk(g) ==
    MergeIndex(g.model.detail.diagrams, g.G.identifiedThreats, 1, MergeContext(g))

\* the fetched object after the walk: tdModel aliases game.model, so the
\* walk's pushes and assignments land in it
GameAfterWalk(g) ==
    IF IsDocument(g.model)
    THEN [g EXCEPT !.model.detail.diagrams = MergeWalk(g).diagrams]
    ELSE g

\* the response of downloadThreatDragonModel for the fetched game g; an
\* exception that escapes the handler is answered with status 500
JsonResponse(g) ==
    IF JsonExportRejected(g) THEN [status |-> 400]
    ELSE IF ~IsDocument(g.model) THEN [status |-> 500]
    ELSE IF MergeWalk(g).raised THEN [status |-> 500]
    ELSE [status |-> 200,
          attachment |-> JsonFilename(GameAfterWalk(g).model),
          body |-> GameAfterWalk(g).model]

\* faulty variant: nothing is reported without a structured document
MarkdownThreatsStructuredOnly(g) ==
    IF IsStructured(g) THEN getThreats(g.G, g.players, g.model) ELSE <<>>

\* getThreats(state, game.metadata, structured model or null)
MarkdownThreats(g) ==
    getThreats(g.G, g.players, IF IsStructured(g) THEN g.model ELSE Null)

\* the response of downloadThreatsMarkdownFile for the fetched game g
MarkdownResponse(g) ==
    [status |-> 200,
     attachment |-> MarkdownFilename(g),
     body |-> formatThreats(
        [k \in 1..Len(MarkdownThreats(g)) |->
            enrichThreatWithCategory(MarkdownThreats(g)[k], GameModeOf(g.G))],
        LocaleNow)]

\* a request for the JSON export arrives and awaits db.fetch
JsonExportFetch(r) ==
    /\ r <= nreq
    /\ pc[r] = "idle"
    /\ pc' = [pc EXCEPT ![r] = "loaded"]
    /\ kind' = [kind EXCEPT ![r] = "json"]
    /\ game' = [game EXCEPT ![r] = DbFetch(store)]
    /\ UNCHANGED <<store, orig, nreq, threats, resp>>
    /\ UNCHANGED viewVars

\* the rest of downloadThreatDragonModel, synchronous after the await
JsonExportRespond(r) ==
    /\ pc[r] = "loaded"
    /\ kind[r] = "json"
    /\ pc' = [pc EXCEPT ![r] = "done"]
    /\ resp' = [resp EXCEPT ![r] = JsonResponse(game[r])]
    /\ game' = [game EXCEPT ![r] =
            IF JsonExportRejected(game[r]) THEN game[r]
            ELSE GameAfterWalk(game[r])]
    /\ store' = IF JsonExportRejected(game[r]) THEN store
                ELSE StoreAfterExport(store, GameAfterWalk(game[r]).model)
    /\ UNCHANGED <<orig, nreq, kind, threats>>
    /\ UNCHANGED viewVars

\* a request for the Markdown export arrives and awaits db.fetch
MarkdownExportFetch(r) ==
    /\ r <= nreq
    /\ pc[r] = "idle"
    /\ pc' = [pc EXCEPT ![r] = "loaded"]
    /\ kind' = [kind EXCEPT ![r] = "md"]
    /\ game' = [game EXCEPT ![r] = DbFetch(store)]
    /\ UNCHANGED <<store, orig, nreq, threats, resp>>
    /\ UNCHANGED viewVars

\* the rest of downloadThreatsMarkdownFile, synchronous after the await
MarkdownExportRespond(r) ==
    /\ pc[r] = "loaded"
    /\ kind[r] = "md"
    /\ pc' = [pc EXCEPT ![r] = "done"]
    /\ threats' = [threats EXCEPT ![r] = MarkdownThreats(game[r])]
    /\ resp' = [resp EXCEPT ![r] = MarkdownResponse(game[r])]
    /\ UNCHANGED <<store, orig, nreq, kind, game>>
    /\ UNCHANGED viewVars

-----------------------------------------------------------------------------
(* Matches the storage can hold when an export is requested *)

Str(c) == <<c>>

\* metadata.players of a two-player match
Roster ==
    <<[name |-> <<"A", "l", "i", "c", "e">>], [name |-> <<"B", "o", "b">>]>>

\* threats a document carries before play
DocOpen ==
    [title |-> <<"E", "1">>, status |-> "Open", severity |-> <<>>,
     type |-> <<>>, description |-> <<>>, mitigation |-> <<>>]
DocMitigated ==
    [title |-> <<"E", "2">>, status |-> "Mitigated", severity |-> <<"L", "o", "w">>,
     type |-> <<"x">>, description |-> <<"d", "\n", "e">>, mitigation |-> NoMitigation]

\* cell.data as the export reads it: threats and hasOpenThreats, each of
\* which a document may lack
DataVariants ==
    {EmptyObj}
    \cup {[hasOpenThreats |-> h] : h \in BOOLEAN}
    \cup {[threats |-> t, hasOpenThreats |-> h] :
            t \in {<<>>, <<DocOpen>>, <<DocMitigated>>}, h \in BOOLEAN}

\* cells of id c; the last one has no data at all
CellVariants(c) ==
    {[id |-> c, data |-> d] : d \in DataVariants} \cup {[id |-> c]}

PlainCell(c) == [id |-> c, data |-> [threats |-> <<DocMitigated>>, hasOpenThreats |-> FALSE]]
StaleCell(c) == [id |-> c, data |-> [threats |-> <<DocOpen>>, hasOpenThreats |-> FALSE]]

\* diagrams of at most two cells with distinct ids
RichDiagrams ==
    {EmptyObj, [cells |-> <<>>]}
    \cup {[cells |-> <<c>>] : c \in CellVariants("c1")}
    \cup {[cells |-> <<c, d>>] :
            c \in CellVariants("c1"), d \in {PlainCell("c2"), StaleCell("c2")}}

BasicDiagrams == {[cells |-> <<PlainCell("c1")>>], [cells |-> <<StaleCell("c2")>>]}

Document(title, diagrams) ==
    [summary |-> [title |-> title], detail |-> [diagrams |-> diagrams]]

SeqsUpTo(S, n) == UNION {[1..k -> S] : k \in 0..n}

\* gameplay threats as the test of the threat bar records them, plus one
\* with every field set
Threat1 ==
    [title |-> <<"I", "d", "e", "n", "t", "i", "f", "i", "e", "d", " ",
                 "T", "h", "r", "e", "a", "t", " ", "1">>]
Threat2 ==
    [title |-> <<"I", "d", "e", "n", "t", "i", "f", "i", "e", "d", " ",
                 "T", "h", "r", "e", "a", "t", " ", "2">>]
Threat3 ==
    [id |-> "threat3", title |-> <<"T", "3">>, description |-> <<"d">>,
     mitigation |-> <<"m">>, severity |-> <<"H", "i", "g", "h">>,
     type |-> <<"E">>, owner |-> <<"1">>]
Threat4 == [id |-> "threat4", title |-> <<"T", "4">>, owner |-> <<"0">>]

AllThreatEntries ==
    <<[key |-> "threat1", val |-> Threat1], [key |-> "threat2", val |-> Threat2],
      [key |-> "threat3", val |-> Threat3], [key |-> "threat4", val |-> Threat4]>>

\* the threats of one component: the first k discovered, k <= MaxThreats
ThreatMaps == {SubSeq(AllThreatEntries, 1, k) : k \in 0..MaxThreats}
OneThreat == SubSeq(AllThreatEntries, 3, 3)

\* identifiedThreats[i]: null, or components in insertion order; "gone" is
\* a component no diagram has
Slot(entries) == [entries |-> entries]

RichSlots ==
    {Null, Slot(<<>>), Slot(<<[key |-> "c1"]>>)}
    \cup {Slot(<<[key |-> "c1", val |-> m]>>) : m \in ThreatMaps}
    \cup {Slot(<<[key |-> "c2", val |-> OneThreat], [key |-> "c1", val |-> m]>>) :
            m \in ThreatMaps}
    \cup {Slot(<<[key |-> "gone", val |-> m], [key |-> "c1", val |-> OneThreat]>>) :
            m \in ThreatMaps}
    \cup {Slot(<<[key |-> "gone", val |-> OneThreat]>>)}

BasicSlots ==
    {Null, Slot(<<[key |-> "c1", val |-> SubSeq(AllThreatEntries, 1, 2)]>>),
     Slot(<<[key |-> "gone", val |-> OneThreat], [key |-> "c2", val |-> OneThreat]>>)}

\* gameplay threat records: every field present or not
Optional(f, v) == {EmptyObj, f :> v}

PartialThreats ==
    {a @@ b @@ c @@ d @@ e @@ f @@ g :
        a \in Optional("title", <<"T">>),
        b \in Optional("description", <<"d">>),
        c \in Optional("mitigation", <<"m">>),
        d \in Optional("severity", <<"H", "i", "g", "h">>),
        e \in Optional("type", <<"E">>),
        f \in Optional("status", "Mitigated"),
        g \in Optional("id", "t1")}

Owners == {<<"0">>, <<"1">>, <<"5">>, <<"x">>, <<"-", "1">>}

OwnedThreats ==
    PartialThreats \cup {("owner" :> o) @@ t : o \in Owners, t \in PartialThreats}

GameState(modelType, gameMode, identifiedThreats) ==
    [modelType |-> modelType, gameMode |-> gameMode,
     identifiedThreats |-> identifiedThreats]

Match(model, G) ==
    [matchID |-> "match-1", model |-> model, G |-> G, players |-> Roster]

\* one diagram, one slot: every shape of cell against every shape of slot
CellMatches ==
    {Match(Document(Str("t"), <<d>>), GameState(THREAT_DRAGON, EOP, <<s>>)) :
        d \in RichDiagrams, s \in RichSlots}

\* documents and indexes of different lengths
IndexMatches ==
    {Match(Document(Str("t"), ds), GameState(THREAT_DRAGON, EOP, ix)) :
        ds \in SeqsUpTo(BasicDiagrams, MaxDiagrams),
        ix \in SeqsUpTo(BasicSlots, MaxDiagrams + 1)}

\* one gameplay threat of every shape, under every game mode
RecordMatches ==
    {Match(Document(Str("t"), <<[cells |-> <<PlainCell("c1")>>]>>),
           GameState(THREAT_DRAGON, gm,
                     <<Slot(<<[key |-> "c1", val |-> <<[key |-> "t1", val |-> t]>>]>>)>>)) :
        gm \in GameModes, t \in OwnedThreats}

\* DEFAULT_MODEL, stored for a game of model type PRIVACY_ENHANCED
DefaultCellId == "90cdcc2d-21ab-443d-ae95-f97a798429e7"

DEFAULT_MODEL ==
    Document(<<"T", "h", "r", "e", "a", "t", " ", "M", "o", "d", "e", "l", "l",
               "i", "n", "g">>,
             <<[cells |-> <<[id |-> DefaultCellId,
                             data |-> [threats |-> <<>>,
                                       hasOpenThreats |-> FALSE]]>>]>>)

\* createGame stores { extension } for an image, the parsed upload (which
\* may be null) for Threat Dragon, DEFAULT_MODEL for the default type
ImagePlaceholder == [extension |-> "png"]

TwoThreats == SubSeq(AllThreatEntries, 1, 2)

\* matches on which several exports race
RaceMatches ==
    {Match(DEFAULT_MODEL,
           GameState(PRIVACY_ENHANCED, EOP,
                     <<Slot(<<[key |-> DefaultCellId, val |-> TwoThreats]>>)>>)),
     Match(ImagePlaceholder,
           GameState(IMAGE, CORNUCOPIA,
                     <<Slot(<<[key |-> "image", val |-> TwoThreats]>>)>>)),
     Match(Null,
           GameState(THREAT_DRAGON, EOP,
                     <<Slot(<<[key |-> "c1", val |-> OneThreat]>>)>>)),
     Match(Document(Str("t"), <<[cells |-> <<StaleCell("c1"), PlainCell("c2")>>]>>),
           GameState(THREAT_DRAGON, CUMULUS,
                     <<Slot(<<[key |-> "c2", val |-> OneThreat],
                                 [key |-> "c1", val |-> TwoThreats]>>)>>)),
     Match(Document(Str("t"), <<[cells |-> <<PlainCell("c1")>>]>>),
           GameState(THREAT_DRAGON, OTHER_MODE, <<Null>>))}

\* threats whose title and mitigation are absent, blank or set
TitleVariants ==
    {EmptyObj, [title |-> <<>>], [title |-> <<" ">>], [title |-> <<"\t", " ">>],
     [title |-> <<" ", "T", " ", "!", " ">>]}

MitigationVariants ==
    {EmptyObj, [mitigation |-> <<>>], [mitigation |-> NoMitigation],
     [mitigation |-> NoMitigation \o <<" ">>],
     [mitigation |-> <<"m", "\r", "\n", "\n", "n">>]}

ReportThreats == {t @@ m : t \in TitleVariants, m \in MitigationVariants}

\* a document threat and a gameplay threat of every such shape, under a
\* suit and after a first threat with every field
ReportMatches ==
    {Match(Document(Str("t"),
                    <<[cells |-> <<[id |-> "c1",
                                    data |-> [threats |-> <<d @@ [status |-> "Open"]>>,
                                              hasOpenThreats |-> TRUE]]>>]>>),
           GameState(THREAT_DRAGON, EOP,
                     <<Slot(<<[key |-> "c1",
                               val |-> <<[key |-> "threat3", val |-> Threat3],
                                         [key |-> "t1",
                                          val |-> d @@ [id |-> "t1", type |-> <<"A">>,
                                                        owner |-> <<"0">>]]>>]>>)>>)) :
        d \in ReportThreats}

\* free text of at most MaxText characters over the characters
\* escapeMarkdownText treats and some it does not
EscapeAlphabet == {"!", "[", "]", "(", ")", "<", ">", "*", "_", "a", "&", "\\"}

Texts == SeqsUpTo(EscapeAlphabet, MaxText)

EscapeMatches ==
    {Match(Null,
           GameState(THREAT_DRAGON, EOP,
                     <<Slot(<<[key |-> "c1",
                               val |-> <<[key |-> "t1",
                                          val |-> [title |-> <<"T">>,
                                                   description |-> d]]>>]>>)>>)) :
        d \in Texts}

\* document titles with no, one and several spaces, and blank ones
Titles ==
    {<<"a", "b">>, <<"a", " ", "b">>, <<"a", " ", "b", " ", "c">>,
     <<" ", "a", " ", " ", "b", " ">>, <<>>, <<" ">>}

\* a game state whose gameMode is not set
GameStateWithoutMode(modelType, identifiedThreats) ==
    [modelType |-> modelType, identifiedThreats |-> identifiedThreats]

\* matches that differ in what the attachment is named after
FilenameMatches ==
    {Match(Document(t, <<[cells |-> <<PlainCell("c1")>>]>>),
           GameState(mt, EOP, <<Slot(<<[key |-> "c1", val |-> OneThreat]>>)>>)) :
        t \in Titles, mt \in {THREAT_DRAGON, PRIVACY_ENHANCED, IMAGE}}
    \cup {Match(m, GameState(mt, gm, <<Slot(<<[key |-> "c1", val |-> TwoThreats]>>)>>)) :
            m \in {Null, ImagePlaceholder}, mt \in {THREAT_DRAGON, IMAGE},
            gm \in GameModes \cup {<<>>}}
    \cup {Match(m, GameStateWithoutMode(mt, <<Slot(<<[key |-> "c1", val |-> TwoThreats]>>)>>)) :
            m \in {Null, ImagePlaceholder}, mt \in {THREAT_DRAGON, IMAGE}}

Matches ==
    RaceMatches \cup CellMatches \cup IndexMatches \cup RecordMatches
    \cup ReportMatches \cup EscapeMatches \cup FilenameMatches

-----------------------------------------------------------------------------
(* The diagram view (model.tsx): toJointGraphJson *)

\* A value the view reads without knowing its type is a record with one
\* field, named after what typeof and Array.isArray tell of it, that holds
\* the value. A property that is not there reads as JsUndefined; a cell is a
\* record of such values.
JsUndefined == [undefined |-> TRUE]
JsNull == [null |-> TRUE]
JsStr(text) == [string |-> text]
JsNum(n) == [number |-> n]
JsBool(b) == [boolean |-> b]
JsObj(o) == [object |-> o]
JsArr(a) == [array |-> a]

TypeOf(x) ==
    CASE Has(x, "undefined") -> "undefined"
      [] Has(x, "null") -> "null"
      [] Has(x, "string") -> "string"
      [] Has(x, "number") -> "number"
      [] Has(x, "boolean") -> "boolean"
      [] Has(x, "object") -> "object"
      [] Has(x, "array") -> "array"

\* the number 0.5, the only number of the view that is not an integer
JsHalf == [number |-> 0, tenths |-> 5]

Nullish(x) == TypeOf(x) \in {"undefined", "null"}

\* !!x
Truthy(x) ==
    CASE TypeOf(x) \in {"undefined", "null"} -> FALSE
      [] TypeOf(x) = "string" -> x.string # <<>>
      [] TypeOf(x) = "number" -> x.number # 0 \/ Has(x, "tenths")
      [] TypeOf(x) = "boolean" -> x.boolean
      [] OTHER -> TRUE

\* x.f for an x that is neither null nor undefined
Prop(x, f) ==
    IF TypeOf(x) = "object" /\ Has(x.object, f) THEN x.object[f] ELSE JsUndefined

\* x?.f
OptProp(x, f) == IF Nullish(x) THEN JsUndefined ELSE Prop(x, f)

\* x ?? d
Coalesce(x, d) == IF Nullish(x) THEN d ELSE x

\* cell.f
Get(cell, f) == IF Has(cell, f) THEN cell[f] ELSE JsUndefined

\* { f: x } as it is serialized: no key for an undefined value
Put(f, x) == IF TypeOf(x) = "undefined" THEN EmptyObj ELSE f :> x

StartsWith(text, p) == Len(p) <= Len(text) /\ SubSeq(text, 1, Len(p)) = p

\* the types of the elements the graph knows
tm ==
    [Process |-> <<"t", "m", ".", "P", "r", "o", "c", "e", "s", "s">>,
     Actor |-> <<"t", "m", ".", "A", "c", "t", "o", "r">>,
     Store |-> <<"t", "m", ".", "S", "t", "o", "r", "e">>,
     Flow |-> <<"t", "m", ".", "F", "l", "o", "w">>,
     Boundary |-> <<"t", "m", ".", "B", "o", "u", "n", "d", "a", "r", "y">>,
     BoundaryBox |-> <<"t", "m", ".", "B", "o", "u", "n", "d", "a", "r", "y", "B", "o", "x">>,
     Text |-> <<"t", "m", ".", "T", "e", "x", "t">>]

\* the shapes the switch of mapToJointType names
shapes ==
    [process |-> <<"p", "r", "o", "c", "e", "s", "s">>,
     actor |-> <<"a", "c", "t", "o", "r">>,
     store |-> <<"s", "t", "o", "r", "e">>,
     flow |-> <<"f", "l", "o", "w">>,
     trustBoundaryCurve |-> <<"t", "r", "u", "s", "t", "-", "b", "o", "u", "n", "d", "a", "r", "y",
                              "-", "c", "u", "r", "v", "e">>,
     trustBoundaryBox |-> <<"t", "r", "u", "s", "t", "-", "b", "o", "u", "n", "d", "a", "r", "y",
                            "-", "b", "o", "x">>]

\* mapToJointType with the shape looked up first
mapToJointTypeShapeFirst(shape, dataType) ==
    IF TypeOf(shape) = "string"
       /\ shape.string \in {shapes.process, shapes.actor, shapes.store, shapes.flow,
                             shapes.trustBoundaryCurve, shapes.trustBoundaryBox}
    THEN CASE shape.string = shapes.process -> tm.Process
           [] shape.string = shapes.actor -> tm.Actor
           [] shape.string = shapes.store -> tm.Store
           [] shape.string = shapes.flow -> tm.Flow
           [] OTHER -> tm.Boundary
    ELSE IF TypeOf(dataType) = "string" /\ StartsWith(dataType.string, <<"t", "m", ".">>)
    THEN IF dataType.string = tm.BoundaryBox THEN tm.Boundary
         ELSE IF dataType.string = tm.Text THEN tm.Process
         ELSE dataType.string
    ELSE tm.Process

\* mapToJointType with tm.BoundaryBox remapped to tm.Text
mapToJointTypeBoxAsText(shape, dataType) ==
    IF TypeOf(dataType) = "string" /\ StartsWith(dataType.string, <<"t", "m", ".">>)
    THEN IF dataType.string = tm.BoundaryBox THEN tm.Text
         ELSE IF dataType.string = tm.Text THEN tm.Process
         ELSE dataType.string
    ELSE IF TypeOf(shape) # "string" THEN tm.Process
    ELSE CASE shape.string = shapes.process -> tm.Process
           [] shape.string = shapes.actor -> tm.Actor
           [] shape.string = shapes.store -> tm.Store
           [] shape.string = shapes.flow -> tm.Flow
           [] shape.string \in {shapes.trustBoundaryCurve, shapes.trustBoundaryBox} -> tm.Boundary
           [] OTHER -> tm.Process

\* shape and dataType are tagged values, the result is a string
mapToJointType(shape, dataType) ==
    IF TypeOf(dataType) = "string" /\ StartsWith(dataType.string, <<"t", "m", ".">>)
    THEN IF dataType.string = tm.BoundaryBox THEN tm.Boundary
         ELSE IF dataType.string = tm.Text THEN tm.Process
         ELSE dataType.string
    ELSE IF TypeOf(shape) # "string" THEN tm.Process
    ELSE CASE shape.string = shapes.process -> tm.Process
           [] shape.string = shapes.actor -> tm.Actor
           [] shape.string = shapes.store -> tm.Store
           [] shape.string = shapes.flow -> tm.Flow
           [] shape.string \in {shapes.trustBoundaryCurve, shapes.trustBoundaryBox} -> tm.Boundary
           [] OTHER -> tm.Process

\* the end of an edge: a point, a cell with an optional port, or nothing
mapEdgeEnd(end) ==
    IF ~Truthy(end) THEN JsObj(EmptyObj)
    ELSE IF TypeOf(Prop(end, "x")) = "number" /\ TypeOf(Prop(end, "y")) = "number"
         THEN JsObj([x |-> Prop(end, "x"), y |-> Prop(end, "y")])
    ELSE IF TypeOf(Prop(end, "cell")) = "string"
         THEN JsObj([id |-> Prop(end, "cell")]
                    @@ Put("port", IF TypeOf(Prop(end, "port")) = "string"
                                   THEN Prop(end, "port") ELSE JsUndefined))
    ELSE JsObj(EmptyObj)

\* typeof x === 'string' && x.trim()
NonBlank(x) == TypeOf(x) = "string" /\ Trim(x.string) # <<>>

\* the name of a cell, '' when it has none
getV2CellName(cell) ==
    LET name == OptProp(Get(cell, "data"), "name")
        a == Get(cell, "attrs")
        t1 == OptProp(Prop(a, "text"), "text")
        t2 == OptProp(Prop(a, "label"), "text")
    IN  IF NonBlank(name) THEN name.string
        ELSE IF Truthy(a) /\ TypeOf(a) \in {"object", "array"}
             THEN IF NonBlank(t1) THEN t1.string
                  ELSE IF NonBlank(t2) THEN t2.string
                  ELSE <<>>
        ELSE <<>>

\* { ...(cell.attrs ?? {}) }: the own properties of an object; a number or a
\* boolean has none
SpreadAttrs(cell) ==
    IF TypeOf(Get(cell, "attrs")) = "object" THEN Get(cell, "attrs").object
    ELSE EmptyObj

\* normalizeAttrs: the attrs of the rendered cell. The copy is shallow:
\* textObj is the text object of the cell itself when it has one, and the
\* name is written into that object. A text that is a string, a number or a
\* boolean cannot take a property: the assignment throws (module code is
\* strict). The result carries the cell as the call leaves it.
normalizeAttrs(cell) ==
    LET attrs == SpreadAttrs(cell)
        name == getV2CellName(cell)
        text == IF Has(attrs, "text") THEN attrs.text ELSE JsUndefined
        textObj == Coalesce(text, JsObj(EmptyObj))
        named == JsObj(("text" :> JsStr(name)) @@ textObj.object)
    IN  IF name = <<>>
        THEN [raised |-> FALSE, attrs |-> attrs, cell |-> cell]
        ELSE IF TypeOf(textObj) # "object"
        THEN [raised |-> TRUE, attrs |-> attrs, cell |-> cell]
        ELSE IF TypeOf(Prop(textObj, "text")) = "string"
        THEN [raised |-> FALSE,
              attrs |-> ("text" :> textObj) @@ attrs,
              cell |-> cell]
        ELSE [raised |-> FALSE,
              attrs |-> ("text" :> named) @@ attrs,
              cell |-> IF Nullish(text) THEN cell
                       ELSE ("attrs" :> JsObj(("text" :> named) @@ attrs)) @@ cell]

\* the text of a label: labelText.text when it is a non-blank string, else
\* label.text when it is a string, else ''
LabelTextOf(attrs) ==
    LET labelText == OptProp(Prop(attrs, "labelText"), "text")
        fallback == OptProp(Prop(attrs, "label"), "text")
    IN  IF NonBlank(labelText) THEN labelText.string
        ELSE IF TypeOf(fallback) = "string" THEN fallback.string
        ELSE <<>>

\* one pass of the loop of mapEdgeLabels: the labels pushed for l (none or
\* one); reading l.attrs of a label that is null or undefined throws
MapLabel(l) ==
    LET attrs == Prop(l, "attrs")
        distance == OptProp(Prop(l, "position"), "distance")
    IN  IF Nullish(l) THEN [raised |-> TRUE, out |-> <<>>]
        ELSE IF ~Truthy(attrs) \/ TypeOf(attrs) \notin {"object", "array"}
             THEN [raised |-> FALSE, out |-> <<>>]
        ELSE IF Trim(LabelTextOf(attrs)) = <<>>
             THEN [raised |-> FALSE, out |-> <<>>]
        ELSE [raised |-> FALSE,
              out |-> <<JsObj([position |-> IF TypeOf(distance) = "number"
                                            THEN distance ELSE JsHalf,
                               attrs |-> JsObj([text |->
                                    JsObj([text |-> JsStr(LabelTextOf(attrs))])])])>>]

RECURSIVE MapLabels(_)
MapLabels(ls) ==
    IF ls = <<>> THEN [raised |-> FALSE, out |-> <<>>]
    ELSE LET first == MapLabel(Head(ls))
             rest == MapLabels(Tail(ls))
         IN  IF first.raised \/ rest.raised THEN [raised |-> TRUE, out |-> <<>>]
             ELSE [raised |-> FALSE, out |-> first.out \o rest.out]

\* mapEdgeLabels: for (const l of cell.labels ?? []) throws for labels that
\* cannot be iterated; a string is iterated character by character, and a
\* character has no attrs
mapEdgeLabels(cell) ==
    LET labels == Coalesce(Get(cell, "labels"), JsArr(<<>>))
    IN  IF TypeOf(labels) = "array" THEN MapLabels(labels.array)
        ELSE IF TypeOf(labels) = "string" THEN [raised |-> FALSE, out |-> <<>>]
        ELSE [raised |-> TRUE, out |-> <<>>]

\* cell.vertices.map((v) => ({ x: v.x, y: v.y })) for an array, [] otherwise;
\* reading v.x of a vertex that is null or undefined throws
MapVertices(cell) ==
    LET vs == Get(cell, "vertices")
    IN  IF TypeOf(vs) # "array" THEN [raised |-> FALSE, out |-> JsArr(<<>>)]
        ELSE IF \E k \in 1..Len(vs.array) : Nullish(vs.array[k])
             THEN [raised |-> TRUE, out |-> JsArr(<<>>)]
        ELSE [raised |-> FALSE,
              out |-> JsArr([k \in 1..Len(vs.array) |->
                        JsObj(Put("x", Prop(vs.array[k], "x"))
                              @@ Put("y", Prop(vs.array[k], "y")))])]

\* base of v2CellToJointCell, with the attrs already normalized
BaseCell(cell, attrs) ==
    Put("id", Get(cell, "id"))
    @@ [type |-> JsStr(mapToJointType(Get(cell, "shape"),
                                      OptProp(Get(cell, "data"), "type"))),
        z |-> IF Truthy(Get(cell, "zIndex")) THEN Get(cell, "zIndex") ELSE JsNum(0),
        attrs |-> JsObj(attrs)]

\* the domain flags both kinds of record carry
DomainFlags(cell) ==
    LET data == Get(cell, "data")
    IN  [description |-> Coalesce(OptProp(data, "description"), JsStr(<<>>)),
         hasOpenThreats |-> JsBool(Truthy(OptProp(data, "hasOpenThreats"))),
         outOfScope |-> JsBool(Truthy(OptProp(data, "outOfScope"))),
         reasonOutOfScope |-> Coalesce(OptProp(data, "reasonOutOfScope"), JsStr(<<>>)),
         isTrustBoundary |-> JsBool(Truthy(OptProp(data, "isTrustBoundary"))),
         threats |-> Coalesce(OptProp(data, "threats"), JsArr(<<>>))]
        @@ Put("visible", IF TypeOf(Get(cell, "visible")) = "boolean"
                          THEN Get(cell, "visible") ELSE JsUndefined)

\* the flow flags an edge of data.type tm.Flow carries
FlowFlags(cell) ==
    LET d == Get(cell, "data")
    IN  IF TypeOf(OptProp(d, "type")) = "string" /\ OptProp(d, "type").string = tm.Flow
        THEN [isBidirectional |-> JsBool(Truthy(Prop(d, "isBidirectional"))),
              isEncrypted |-> JsBool(Truthy(Prop(d, "isEncrypted"))),
              isPublicNetwork |-> JsBool(Truthy(Prop(d, "isPublicNetwork"))),
              protocol |-> IF TypeOf(Prop(d, "protocol")) = "string"
                           THEN Prop(d, "protocol") ELSE JsStr(<<>>)]
        ELSE EmptyObj

NodeCell(cell, attrs) ==
    LET position == Get(cell, "position")
        size == Get(cell, "size")
    IN  [position |-> JsObj(Put("x", Prop(position, "x")) @@ Put("y", Prop(position, "y"))),
         size |-> JsObj(Put("width", Prop(size, "width"))
                        @@ Put("height", Prop(size, "height")))]
        @@ DomainFlags(cell) @@ BaseCell(cell, attrs)

EdgeCell(cell, attrs, vertices, labels) ==
    FlowFlags(cell)
    @@ (IF labels # <<>> THEN [labels |-> JsArr(labels)] ELSE EmptyObj)
    @@ [source |-> mapEdgeEnd(Get(cell, "source")),
        target |-> mapEdgeEnd(Get(cell, "target")),
        vertices |-> vertices]
    @@ Put("smooth", IF TypeOf(Get(cell, "connector")) = "string"
                     THEN JsBool(Get(cell, "connector").string
                                    = <<"s", "m", "o", "o", "t", "h">>)
                     ELSE JsUndefined)
    @@ DomainFlags(cell) @@ BaseCell(cell, attrs)

\* v2CellToJointCell: out is the record of the cell, none for a cell that is
\* neither node nor edge; cell is the cell as the call leaves it
v2CellToJointCell(cell) ==
    LET normalized == normalizeAttrs(cell)
        vertices == MapVertices(cell)
        labels == mapEdgeLabels(cell)
    IN  IF normalized.raised THEN [raised |-> TRUE, out |-> <<>>, cell |-> cell]
        ELSE IF Truthy(Get(cell, "position")) /\ Truthy(Get(cell, "size"))
        THEN [raised |-> FALSE, out |-> <<NodeCell(cell, normalized.attrs)>>,
              cell |-> normalized.cell]
        ELSE IF Truthy(Get(cell, "source")) \/ Truthy(Get(cell, "target"))
        THEN IF vertices.raised \/ labels.raised
             THEN [raised |-> TRUE, out |-> <<>>, cell |-> normalized.cell]
             ELSE [raised |-> FALSE,
                   out |-> <<EdgeCell(cell, normalized.attrs, vertices.out, labels.out)>>,
                   cell |-> normalized.cell]
        ELSE [raised |-> FALSE, out |-> <<>>, cell |-> normalized.cell]

\* (diagram.cells ?? []).map(v2CellToJointCell).filter((c) => c !== null):
\* the records in the order of the cells, and the cells as the calls leave
\* them; an exception ends the map
RECURSIVE MapCells(_)
MapCells(cells) ==
    IF cells = <<>> THEN [raised |-> FALSE, out |-> <<>>, cells |-> <<>>]
    ELSE LET first == v2CellToJointCell(Head(cells))
             rest == MapCells(Tail(cells))
         IN  IF first.raised
             THEN [raised |-> TRUE, out |-> <<>>, cells |-> <<first.cell>> \o Tail(cells)]
             ELSE [raised |-> rest.raised,
                   out |-> IF rest.raised THEN <<>> ELSE first.out \o rest.out,
                   cells |-> <<first.cell>> \o rest.cells]

toJointGraphJson(diagram) ==
    MapCells(IF Has(diagram, "cells") THEN diagram.cells ELSE <<>>)

\* the effect of the view: toJointGraphJson(diagram) is handed to the graph.
\* Nothing is rendered when no diagram is selected, and an exception ends the
\* view.
RenderDiagram ==
    /\ shown # Null
    /\ Len(graphs) < NumRenders
    /\ \A k \in 1..Len(graphs) : ~graphs[k].raised
    /\ graphs' = Append(graphs,
                        IF toJointGraphJson(shown).raised THEN [raised |-> TRUE]
                        ELSE [raised |-> FALSE,
                              cells |-> toJointGraphJson(shown).out])
    /\ shown' = IF Has(shown, "cells")
                THEN [cells |-> toJointGraphJson(shown).cells]
                ELSE shown
    /\ UNCHANGED <<store, orig, nreq, pc, kind, game, threats, resp, origShown>>

-----------------------------------------------------------------------------
(* Diagrams the view can be given *)

Point(x, y) == JsObj([x |-> JsNum(x), y |-> JsNum(y)])
Size(w, h) == JsObj([width |-> JsNum(w), height |-> JsNum(h)])
CellEnd(id) == JsObj([cell |-> JsStr(id)])

\* what every cell carries: id, shape, zIndex and data
CellBase(id, shape, type) ==
    [id |-> JsStr(id), shape |-> JsStr(shape), zIndex |-> JsNum(1),
     data |-> JsObj([type |-> JsStr(type), name |-> JsStr(<<"N">>),
                     hasOpenThreats |-> JsBool(FALSE), threats |-> JsArr(<<>>)])]

\* a fully specified node cell and a fully specified edge cell
NodeOf(id, x) ==
    [position |-> Point(x, 2), size |-> Size(3, 4),
     attrs |-> JsObj([text |-> JsObj([text |-> JsStr(<<"N">>)])])]
    @@ CellBase(id, shapes.process, tm.Process)

EdgeOf(id) ==
    [source |-> CellEnd(<<"n", "1">>), target |-> Point(5, 6),
     vertices |-> JsArr(<<Point(7, 8)>>), connector |-> JsStr(<<"s", "m", "o", "o", "t", "h">>),
     labels |-> JsArr(<<JsObj([attrs |-> JsObj([labelText |-> JsObj([text |-> JsStr(<<"L">>)])]),
                              position |-> JsObj([distance |-> JsNum(1)])])>>)]
    @@ CellBase(id, shapes.flow, tm.Flow)

\* cells with every combination of geometry: position and size present,
\* null or (position) without coordinates, source and target present or not
GeometryCells(id) ==
    {p @@ z @@ a @@ b @@ CellBase(id, shapes.store, tm.Store) :
        p \in {EmptyObj, [position |-> JsNull], [position |-> JsObj(EmptyObj)],
               [position |-> Point(1, 2)]},
        z \in {EmptyObj, [size |-> JsNull], [size |-> Size(3, 4)]},
        a \in {EmptyObj, [source |-> CellEnd(<<"n", "1">>)]},
        b \in {EmptyObj, [target |-> JsNull], [target |-> Point(5, 6)]}}

\* cells that lack optional fields or carry them with another type
MalformedCells(id) ==
    {[id |-> JsStr(id), position |-> Point(1, 2), size |-> Size(3, 4)],
     [id |-> JsStr(id), source |-> CellEnd(<<"n", "1">>)],
     [id |-> JsStr(id), position |-> Point(1, 2), size |-> Size(3, 4),
      data |-> JsNull, attrs |-> JsNull, visible |-> JsStr(<<"y">>)],
     [id |-> JsStr(id), target |-> CellEnd(<<"n", "1">>), data |-> JsStr(<<"d">>),
      vertices |-> JsStr(<<"v">>), labels |-> JsStr(<<"l">>), connector |-> JsNum(1),
      shape |-> JsNum(1), visible |-> JsBool(TRUE)],
     [id |-> JsStr(id), position |-> Point(1, 2)],
     [id |-> JsStr(id), size |-> Size(3, 4), vertices |-> JsArr(<<Point(1, 1)>>)],
     [attrs |-> JsObj([text |-> JsStr(<<"N">>)])] @@ NodeOf(id, 1),
     [attrs |-> JsObj([text |-> JsNum(5)])] @@ EdgeOf(id),
     [attrs |-> JsObj([text |-> JsObj(EmptyObj)])] @@ NodeOf(id, 1),
     [attrs |-> JsObj([text |-> JsObj([text |-> JsNum(5)])])] @@ EdgeOf(id),
     [attrs |-> JsObj([text |-> JsStr(<<"N">>)]),
      data |-> JsObj([type |-> JsNum(1)])] @@ NodeOf(id, 1),
     [labels |-> JsNum(5)] @@ EdgeOf(id),
     [labels |-> JsArr(<<JsNull>>)] @@ EdgeOf(id),
     [labels |-> JsArr(<<JsStr(<<"l">>), JsObj(EmptyObj),
                         JsObj([attrs |-> JsStr(<<"a">>)]),
                         JsObj([attrs |-> JsObj([labelText |-> JsObj([text |-> JsStr(<<" ">>)]),
                                                 label |-> JsObj([text |-> JsStr(<<"F">>)])])]),
                         JsObj([attrs |-> JsObj([label |-> JsObj([text |-> JsStr(<<" ">>)])])])>>)]
        @@ EdgeOf(id),
     [vertices |-> JsArr(<<Point(1, 1), JsNull>>)] @@ EdgeOf(id),
     [vertices |-> JsArr(<<JsObj([x |-> JsNum(1)]), JsNum(2)>>)] @@ EdgeOf(id)}

\* the data.type and the shape a cell can carry: those mapToJointType names,
\* a type with the prefix it does not name, the prefix alone, a type with
\* another case, a type without the prefix, a shape it does not name and ''
DataTypes ==
    {tm.Process, tm.Actor, tm.Store, tm.Flow, tm.Boundary, tm.BoundaryBox, tm.Text,
     <<"t", "m", ".", "X">>, <<"t", "m", ".">>, <<"T", "m", ".", "F", "l", "o", "w">>,
     shapes.actor}

CellShapes ==
    {shapes.process, shapes.actor, shapes.store, shapes.flow,
     shapes.trustBoundaryCurve, shapes.trustBoundaryBox,
     <<"t", "d", "-", "t", "e", "x", "t", "-", "b", "l", "o", "c", "k">>, <<>>}

\* node and edge cells of every shape and data.type, those missing or not a
\* string included
TypedCells(id) ==
    {s @@ d @@ g @@ [id |-> JsStr(id)] :
        s \in {EmptyObj, [shape |-> JsNum(1)]} \cup {[shape |-> JsStr(sh)] : sh \in CellShapes},
        d \in {[data |-> JsNull], [data |-> JsObj(EmptyObj)],
               [data |-> JsObj([type |-> JsNum(1)])]}
              \cup {[data |-> JsObj([type |-> JsStr(t)])] : t \in DataTypes},
        g \in {[position |-> Point(1, 2), size |-> Size(3, 4)],
               [source |-> CellEnd(<<"n", "1">>), target |-> Point(5, 6)]}}

\* node cells with every combination of a name, a text slot and a label:
\* each missing, blank or given, the text slot also '' or a number
LabelCells(id) ==
    {a @@ d @@ [id |-> JsStr(id), shape |-> JsStr(shapes.actor),
                position |-> Point(1, 2), size |-> Size(3, 4)] :
        d \in {[data |-> JsObj(EmptyObj)],
               [data |-> JsObj([name |-> JsStr(<<" ">>)])],
               [data |-> JsObj([name |-> JsStr(<<"N">>)])]},
        a \in {[attrs |-> JsObj(t @@ l @@ [body |-> JsObj([fill |-> JsStr(<<"f">>)])])] :
                    t \in {EmptyObj, [text |-> JsObj(EmptyObj)]}
                          \cup {[text |-> JsObj([text |-> x, fill |-> JsStr(<<"g">>)])] :
                                    x \in {JsStr(<<>>), JsStr(<<" ">>), JsStr(<<"T">>),
                                           JsNum(5)}},
                    l \in {EmptyObj, [label |-> JsObj([text |-> JsStr(<<" ">>)])],
                           [label |-> JsObj([text |-> JsStr(<<"L">>)])]}}}

Diagram(cells) == [cells |-> cells]

\* diagrams of fully specified node cells only
NodeDiagrams ==
    {Diagram([k \in 1..n |-> NodeOf(IF k % 2 = 1 THEN <<"a">> ELSE <<"b">>, k)]) :
        n \in 0..MaxCells}

Diagrams ==
    {EmptyObj}
    \cup NodeDiagrams
    \cup {Diagram(<<c>>) : c \in GeometryCells(<<"a">>)}
    \cup {Diagram(<<c, d>>) : c \in GeometryCells(<<"a">>),
                              d \in {NodeOf(<<"b">>, 1), EdgeOf(<<"b">>), [id |-> JsStr(<<"b">>)]}}
    \cup {Diagram(<<EdgeOf(<<"b">>), c>>) : c \in GeometryCells(<<"a">>)}
    \cup {Diagram(<<c>>) : c \in MalformedCells(<<"a">>)}
    \cup {Diagram(<<c, NodeOf(<<"b">>, 1)>>) : c \in MalformedCells(<<"a">>)}
    \cup {Diagram(<<EdgeOf(<<"b">>), c>>) : c \in MalformedCells(<<"a">>)}
    \cup {Diagram(<<c>>) : c \in TypedCells(<<"a">>)}
    \cup {Diagram(<<c>>) : c \in LabelCells(<<"a">>)}

-----------------------------------------------------------------------------
(* The state machine *)

\* a run is a run of the server, where the exports of one stored match are
\* requested, or a run of the view, where one diagram is rendered
Init ==
    /\ store \in Matches
    /\ orig = store
    /\ nreq \in 0..NumRequests
    /\ nreq # 1 => store \in RaceMatches
    /\ shown \in Diagrams \cup {Null}
    /\ (shown # Null) = (nreq = 0)
    /\ origShown = shown
    /\ graphs = <<>>
    /\ pc = [r \in Requests |-> "idle"]
    /\ kind = [r \in Requests |-> "none"]
    /\ game = [r \in Requests |-> Null]
    /\ threats = [r \in Requests |-> <<>>]
    /\ resp = [r \in Requests |-> Null]

Next ==
    \/ \E r \in Requests :
            \/ JsonExportFetch(r)
            \/ JsonExportRespond(r)
            \/ MarkdownExportFetch(r)
            \/ MarkdownExportRespond(r)
    \/ RenderDiagram

Spec == Init /\ [][Next]_vars

-----------------------------------------------------------------------------
(* Vocabulary of the properties *)

Done(r, k) == pc[r] = "done" /\ kind[r] = k

\* the stored model is a structured document of a JSON model type
StructuredMatch(m) ==
    /\ m.model # Null
    /\ ~Has(m.model, "extension")
    /\ m.G.modelType \in {THREAT_DRAGON, PRIVACY_ENHANCED}

\* <<i, j, k>>: the k-th threat of the j-th component of slot i of the index
GamePositions(ix) ==
    UNION {UNION {{<<i, j, k>> : k \in 1..Len(ix[i].entries[j].val)} :
                    j \in {b \in 1..Len(ix[i].entries) : Has(ix[i].entries[b], "val")}} :
            i \in {a \in 1..Len(ix) : ix[a] # Null}}

GameRecord(ix, p) == ix[p[1]].entries[p[2]].val[p[3]].val

\* <<i, k>>: the k-th cell of the i-th diagram of a document
CellPositions(model) ==
    UNION {{<<i, k>> : k \in 1..Len(model.detail.diagrams[i].cells)} :
            i \in {a \in 1..Len(model.detail.diagrams) :
                        Has(model.detail.diagrams[a], "cells")}}

CellAt(model, c) == model.detail.diagrams[c[1]].cells[c[2]]

ThreatList(cell) ==
    IF Has(cell, "data") /\ Has(cell.data, "threats") THEN cell.data.threats
    ELSE <<>>

Flag(cell) ==
    Has(cell, "data") /\ Has(cell.data, "hasOpenThreats")
    /\ cell.data.hasOpenThreats

\* <<i, k, n>>: the n-th threat of the k-th cell of the i-th diagram
DocPositions(model) ==
    UNION {{<<c[1], c[2], n>> : n \in 1..Len(ThreatList(CellAt(model, c)))} :
            c \in CellPositions(model)}

Before(p, q) ==
    \/ p[1] < q[1]
    \/ p[1] = q[1] /\ p[2] < q[2]
    \/ p[1] = q[1] /\ p[2] = q[2] /\ p[3] < q[3]

\* place of p when S is listed in increasing order
Rank(p, S) == Cardinality({q \in S : Before(q, p)}) + 1

\* the component entries of slot i that name cell id (at most one)
EntriesFor(ix, i, id) ==
    IF i <= Len(ix) /\ ix[i] # Null
    THEN {j \in 1..Len(ix[i].entries) :
            ix[i].entries[j].key = id /\ Has(ix[i].entries[j], "val")}
    ELSE {}

\* the cell at c is the one the walk locates for a component of its slot
Visited(model, ix, c) ==
    /\ EntriesFor(ix, c[1], CellAt(model, c).id) # {}
    /\ \A k \in 1..(c[2] - 1) : CellAt(model, <<c[1], k>>).id # CellAt(model, c).id

\* the gameplay threats recorded for the cell at c, in discovery order
RecordedFor(model, ix, c) ==
    IF Visited(model, ix, c)
    THEN ix[c[1]].entries[CHOOSE j \in EntriesFor(ix, c[1], CellAt(model, c).id) : TRUE].val
    ELSE <<>>

\* every cell the walk locates has a data object (the type requires it)
VisitedCellsHaveData(m) ==
    \A c \in CellPositions(m.model) :
        Visited(m.model, m.G.identifiedThreats, c) => Has(CellAt(m.model, c), "data")

-----------------------------------------------------------------------------
(* Properties *)

\* C1: a JSON export of a match whose stored model is absent, is the image
\* placeholder or whose model type is not a JSON type ends in status 400,
\* appends no threat to anything it loaded and produces neither a body nor
\* an attachment file name.
C1_JsonExportRejected ==
    \A r \in Requests :
        Done(r, "json") /\ ~StructuredMatch(orig)
        => /\ resp[r].status = 400
           /\ ~Has(resp[r], "body")
           /\ ~Has(resp[r], "attachment")
           /\ game[r] = orig

C1_Witness ==
    \E r \in Requests :
        /\ Done(r, "json")
        /\ orig.model = ImagePlaceholder
        /\ GamePositions(orig.G.identifiedThreats) # {}
        /\ resp[r].status = 400

\* C2 as stated: a Markdown export of a match whose stored model is not a
\* structured document is rejected with a client error and nothing is
\* flattened or formatted.
C2_MarkdownExportRejected ==
    \A r \in Requests :
        Done(r, "md") /\ ~StructuredMatch(orig)
        => /\ resp[r].status = 400
           /\ ~Has(resp[r], "body")

\* C2 as amended: a Markdown export of a match whose stored model is not a
\* structured document is answered with status 200 and a report of the
\* gameplay threats alone: one entry of status "NA" per gameplay threat.
C2_MarkdownExportWithoutDocument ==
    \A r \in Requests :
        Done(r, "md") /\ ~StructuredMatch(orig)
        => /\ resp[r].status = 200
           /\ Has(resp[r], "body")
           /\ Has(resp[r], "attachment")
           /\ Len(threats[r]) = Cardinality(GamePositions(orig.G.identifiedThreats))
           /\ \A k \in 1..Len(threats[r]) : threats[r][k].status = "NA"

C2_Witness ==
    \E r \in Requests :
        /\ Done(r, "md")
        /\ orig.model = ImagePlaceholder
        /\ Len(threats[r]) = 2
        /\ resp[r].status = 200

\* C3 as stated: the merge leaves the document it loaded as it was: after
\* the JSON export every cell of the loaded document has the threats and
\* the hasOpenThreats it had when it was loaded.
C3_LoadedDocumentUnchanged ==
    \A r \in Requests :
        Done(r, "json") /\ StructuredMatch(orig)
        => \A c \in CellPositions(orig.model) :
              /\ ThreatList(CellAt(game[r].model, c)) = ThreatList(CellAt(orig.model, c))
              /\ Flag(CellAt(game[r].model, c)) = Flag(CellAt(orig.model, c))

C5_FlagRecomputedEverywhere ==
    \A r \in Requests :
        Done(r, "json") /\ StructuredMatch(orig) /\ resp[r].status = 200
        => \A c \in CellPositions(orig.model) :
              /\ Flag(CellAt(orig.model, c)) => Flag(CellAt(resp[r].body, c))
              /\ Flag(CellAt(resp[r].body, c)) =
                    (Flag(CellAt(orig.model, c))
                     \/ SomeOpen(ThreatList(CellAt(resp[r].body, c))))

\* C5 as amended: the merge never turns hasOpenThreats from true to false;
\* for a cell the walk locates the new value is (previous value OR some
\* threat of the resulting list has status "Open"); every other cell keeps
\* its data, flag included, whatever its threats are.
C5_FlagMonotonic ==
    \A r \in Requests :
        Done(r, "json") /\ StructuredMatch(orig) /\ resp[r].status = 200
        => \A c \in CellPositions(orig.model) :
              /\ Flag(CellAt(orig.model, c)) => Flag(CellAt(resp[r].body, c))
              /\ IF Visited(orig.model, orig.G.identifiedThreats, c)
                 THEN Flag(CellAt(resp[r].body, c)) =
                        (Flag(CellAt(orig.model, c))
                         \/ SomeOpen(ThreatList(CellAt(resp[r].body, c))))
                 ELSE CellAt(resp[r].body, c) = CellAt(orig.model, c)

\* a located cell whose flag was set although no threat is open, and whose
\* component has no gameplay threat: the flag stays set
C5_Witness ==
    \E r \in Requests :
        /\ Done(r, "json") /\ StructuredMatch(orig) /\ resp[r].status = 200
        /\ \E c \in CellPositions(orig.model) :
              /\ Visited(orig.model, orig.G.identifiedThreats, c)
              /\ Flag(CellAt(orig.model, c))
              /\ ~SomeOpen(ThreatList(CellAt(resp[r].body, c)))
              /\ Flag(CellAt(resp[r].body, c))
        /\ \E c \in CellPositions(orig.model) :
              /\ ~Visited(orig.model, orig.G.identifiedThreats, c)
              /\ SomeOpen(ThreatList(CellAt(orig.model, c)))
              /\ ~Flag(CellAt(resp[r].body, c))

\* C6: the merge appends: the threats a cell had are a prefix of the
\* threats it has afterwards, in the same order, and the rest is one record
\* per gameplay threat recorded for that diagram position and cell id, in
\* discovery order.
C6_AppendOnly ==
    \A r \in Requests :
        Done(r, "json") /\ StructuredMatch(orig) /\ resp[r].status = 200
        => \A c \in CellPositions(orig.model) :
              LET before == ThreatList(CellAt(orig.model, c))
                  after == ThreatList(CellAt(resp[r].body, c))
                  recorded == RecordedFor(orig.model, orig.G.identifiedThreats, c)
              IN  /\ Len(after) = Len(before) + Len(recorded)
                  /\ SubSeq(after, 1, Len(before)) = before
                  /\ \A n \in 1..Len(recorded) :
                        LET new == after[Len(before) + n]
                        IN  /\ new.game = orig.matchID
                            /\ new.title = OrElse(recorded[n].val, "title", <<>>)
                            /\ Has(new, "id") = Has(recorded[n].val, "id")
                            /\ Has(new, "id") => new.id = recorded[n].val.id

C6_Witness ==
    \E r \in Requests :
        /\ Done(r, "json") /\ StructuredMatch(orig) /\ resp[r].status = 200
        /\ \E c \in CellPositions(orig.model) :
              /\ Len(ThreatList(CellAt(orig.model, c))) >= 1
              /\ Len(RecordedFor(orig.model, orig.G.identifiedThreats, c)) >= 2
              /\ Len(ThreatList(CellAt(resp[r].body, c))) >= 3

\* the gameplay threats whose slot has a diagram and whose component is a
\* cell of that diagram
LocatedPositions(m) ==
    {p \in GamePositions(m.G.identifiedThreats) :
        /\ p[1] <= Len(m.model.detail.diagrams)
        /\ \E c \in CellPositions(m.model) :
              /\ c[1] = p[1]
              /\ CellAt(m.model, c).id = m.G.identifiedThreats[p[1]].entries[p[2]].key}

\* number of threats in all cells of a document
ThreatCount(model) == Cardinality(DocPositions(model))

\* C7: gameplay threats whose slot has no diagram or whose component is no
\* cell of the diagram are skipped: the export still succeeds, no cell
\* receives them, and the threats of all other components are merged.
C7_DanglingThreatsSkipped ==
    \A r \in Requests :
        Done(r, "json") /\ StructuredMatch(orig) /\ VisitedCellsHaveData(orig)
        => /\ resp[r].status = 200
           /\ ThreatCount(resp[r].body)
                = ThreatCount(orig.model) + Cardinality(LocatedPositions(orig))
           /\ \A c \in CellPositions(orig.model) :
                ~Visited(orig.model, orig.G.identifiedThreats, c)
                => CellAt(resp[r].body, c) = CellAt(orig.model, c)

\* a slot beyond the last diagram, a component that is no cell, and a
\* located component in the same index
C7_Witness ==
    \E r \in Requests :
        /\ Done(r, "json") /\ StructuredMatch(orig) /\ resp[r].status = 200
        /\ \E p \in GamePositions(orig.G.identifiedThreats) :
              p[1] > Len(orig.model.detail.diagrams)
        /\ \E p \in GamePositions(orig.G.identifiedThreats) :
              /\ p[1] <= Len(orig.model.detail.diagrams)
              /\ p \notin LocatedPositions(orig)
        /\ LocatedPositions(orig) # {}
        /\ ThreatCount(resp[r].body) > ThreatCount(orig.model)

\* the fields getThreats and the merge walk fill in when the gameplay record
\* lacks them
DefaultedFields == {"description", "mitigation", "severity", "title", "status"}

\* C8: neither walk raises on an index with absent slots, components without
\* threats or threats without fields, nor on a document whose cells lack
\* optional fields (threats, hasOpenThreats, cells): the JSON export of a
\* structured document answers 200 with every located cell holding a threats
\* list of complete records, and the Markdown export answers 200 with a list
\* of complete records.
C8_AggregationNeverRaises ==
    \A r \in Requests :
        /\ Done(r, "json") /\ StructuredMatch(orig) /\ VisitedCellsHaveData(orig)
           => /\ resp[r].status = 200
              /\ \A c \in CellPositions(orig.model) :
                    Visited(orig.model, orig.G.identifiedThreats, c)
                    => /\ Has(CellAt(resp[r].body, c).data, "threats")
                       /\ Has(CellAt(resp[r].body, c).data, "hasOpenThreats")
                       /\ \A n \in (Len(ThreatList(CellAt(orig.model, c))) + 1)
                                    ..Len(ThreatList(CellAt(resp[r].body, c))) :
                             DefaultedFields \subseteq
                                DOMAIN ThreatList(CellAt(resp[r].body, c))[n]
        /\ Done(r, "md")
           => /\ resp[r].status = 200
              /\ Len(threats[r]) >= Cardinality(GamePositions(orig.G.identifiedThreats))
              /\ \A n \in 1..Cardinality(GamePositions(orig.G.identifiedThreats)) :
                    DefaultedFields \cup {"type"} \subseteq DOMAIN threats[r][n]

\* a located cell without a threats list and without a flag receives a
\* gameplay threat without fields, next to an absent slot
C8_Witness ==
    \E r \in Requests :
        /\ Done(r, "json") /\ StructuredMatch(orig) /\ resp[r].status = 200
        /\ \E c \in CellPositions(orig.model) :
              /\ Visited(orig.model, orig.G.identifiedThreats, c)
              /\ Has(CellAt(orig.model, c), "data")
              /\ ~Has(CellAt(orig.model, c).data, "threats")
              /\ ~Has(CellAt(orig.model, c).data, "hasOpenThreats")
              /\ Len(ThreatList(CellAt(resp[r].body, c))) >= 1

\* the document getThreats is given by the Markdown export
SuppliedPositions(m) == IF IsStructured(m) THEN DocPositions(m.model) ELSE {}

\* threats.reverse() of the threat bar
Reverse(list) == [n \in 1..Len(list) |-> list[Len(list) + 1 - n]]

\* C9: getThreats returns the gameplay threats first, by slot, then component
\* insertion order, then discovery order, and after them the threats of the
\* supplied document by diagram, cell and list position, unmodified; the
\* list has one entry per threat; reversing the two threats of a lone
\* component lists the later discovered one first.
C9_FlattenOrder ==
    \A r \in Requests :
        Done(r, "md")
        => LET ix == orig.G.identifiedThreats
               GP == GamePositions(ix)
               DP == SuppliedPositions(orig)
           IN  /\ Len(threats[r]) = Cardinality(GP) + Cardinality(DP)
               /\ \A p \in GP :
                     threats[r][Rank(p, GP)]
                        = FlattenedThreat(GameRecord(ix, p), orig.players)
               /\ \A q \in DP :
                     threats[r][Cardinality(GP) + Rank(q, DP)]
                        = ThreatList(CellAt(orig.model, <<q[1], q[2]>>))[q[3]]
               /\ GP = {<<1, 1, 1>>, <<1, 1, 2>>} /\ DP = {}
                  => Reverse(threats[r])
                        = <<FlattenedThreat(GameRecord(ix, <<1, 1, 2>>), orig.players),
                            FlattenedThreat(GameRecord(ix, <<1, 1, 1>>), orig.players)>>

\* gameplay threats of two slots and two components of one slot, and
\* document threats in two cells
C9_Witness ==
    \E r \in Requests :
        /\ Done(r, "md")
        /\ \E p, q, u \in GamePositions(orig.G.identifiedThreats) :
              /\ p[1] < q[1]
              /\ q[1] = u[1] /\ q[2] < u[2]
        /\ \E p, q \in SuppliedPositions(orig) : p[1] < q[1]
        /\ Len(threats[r]) >= 5

\* the test's index: component1 with threat1 and threat2
C9_ReverseWitness ==
    \E r \in Requests :
        /\ Done(r, "md")
        /\ GamePositions(orig.G.identifiedThreats) = {<<1, 1, 1>>, <<1, 1, 2>>}
        /\ SuppliedPositions(orig) = {}
        /\ Reverse(threats[r])[1].title = Threat2.title
        /\ Reverse(threats[r])[2].title = Threat1.title

\* C10: every gameplay threat of the list has status "NA", the defaults ""
\* for description, mitigation, title and type and "Low" for severity where
\* the record lacks the field, the record's value where it has it, and no
\* owner when the record has none; the record {title: "T"} becomes
\* {title: "T", description: "", mitigation: "", severity: "Low", type: "",
\* status: "NA"}.
C10_FlattenDefaults ==
    \A r \in Requests :
        Done(r, "md")
        => LET ix == orig.G.identifiedThreats
               GP == GamePositions(ix)
           IN  \A p \in GP :
                 LET rec == GameRecord(ix, p)
                     out == threats[r][Rank(p, GP)]
                 IN  /\ out.status = "NA"
                     /\ out.description = OrElse(rec, "description", <<>>)
                     /\ out.mitigation = OrElse(rec, "mitigation", <<>>)
                     /\ out.severity = OrElse(rec, "severity", <<"L", "o", "w">>)
                     /\ out.title = OrElse(rec, "title", <<>>)
                     /\ out.type = OrElse(rec, "type", <<>>)
                     /\ Has(rec, "id") => Has(out, "id") /\ out.id = rec.id
                     /\ ~Has(rec, "owner") => ~Has(out, "owner")
                     /\ rec = [title |-> <<"T">>]
                        => out = [title |-> <<"T">>, description |-> <<>>,
                                  mitigation |-> <<>>,
                                  severity |-> <<"L", "o", "w">>,
                                  type |-> <<>>, status |-> "NA"]

\* the record {title: "T"}, and a record that carries a status of its own
C10_Witness ==
    \E r \in Requests :
        /\ Done(r, "md")
        /\ GamePositions(orig.G.identifiedThreats) = {<<1, 1, 1>>}
        /\ GameRecord(orig.G.identifiedThreats, <<1, 1, 1>>) = [title |-> <<"T">>]
        /\ threats[r][1].severity = <<"L", "o", "w">>

C10_StatusWitness ==
    \E r \in Requests :
        /\ Done(r, "md")
        /\ GamePositions(orig.G.identifiedThreats) = {<<1, 1, 1>>}
        /\ Has(GameRecord(orig.G.identifiedThreats, <<1, 1, 1>>), "status")
        /\ threats[r][1].status = "NA"

\* the owner the roster ["Alice", "Bob"] gives a gameplay record
RosterOwner(rec) ==
    IF Has(rec, "owner") /\ rec.owner = <<"0">> THEN Defined(<<"A", "l", "i", "c", "e">>)
    ELSE IF Has(rec, "owner") /\ rec.owner = <<"1">> THEN Defined(<<"B", "o", "b">>)
    ELSE Undefined

\* the threat object has the owner o, or none when o is undefined
OwnerIs(threat, o) ==
    /\ Has(threat, "owner") = Has(o, "v")
    /\ Has(o, "v") => threat.owner = o.v

\* the records the JSON export appended to the cell at c
Appended(r, c) ==
    LET before == ThreatList(CellAt(orig.model, c))
        after == ThreatList(CellAt(resp[r].body, c))
    IN  SubSeq(after, Len(before) + 1, Len(after))

\* C11: in the flattened list and in the merged records the owner of a
\* gameplay threat is the name of the roster player its owner string
\* indexes ("0" Alice, "1" Bob), and there is no owner when the record has
\* none, when the string is no integer ("x") or when the index is outside
\* the roster ("5", "-1").
C11_OwnerResolution ==
    \A r \in Requests :
        /\ Done(r, "md")
           => LET ix == orig.G.identifiedThreats
                  GP == GamePositions(ix)
              IN  \A p \in GP :
                    OwnerIs(threats[r][Rank(p, GP)], RosterOwner(GameRecord(ix, p)))
        /\ Done(r, "json") /\ StructuredMatch(orig) /\ resp[r].status = 200
           => \A c \in CellPositions(orig.model) :
                LET recorded == RecordedFor(orig.model, orig.G.identifiedThreats, c)
                IN  /\ Len(Appended(r, c)) = Len(recorded)
                    /\ \A n \in 1..Len(recorded) :
                          OwnerIs(Appended(r, c)[n], RosterOwner(recorded[n].val))

\* owner "1" is merged as Bob
C11_Witness ==
    \E r \in Requests :
        /\ Done(r, "json") /\ StructuredMatch(orig) /\ resp[r].status = 200
        /\ \E c \in CellPositions(orig.model) :
              /\ Len(Appended(r, c)) = 1
              /\ Has(RecordedFor(orig.model, orig.G.identifiedThreats, c)[1].val, "owner")
              /\ RecordedFor(orig.model, orig.G.identifiedThreats, c)[1].val.owner = <<"1">>
              /\ Has(Appended(r, c)[1], "owner")
              /\ Appended(r, c)[1].owner = <<"B", "o", "b">>

\* owner "5" is flattened without owner
C11_OutOfRangeWitness ==
    \E r \in Requests :
        /\ Done(r, "md")
        /\ GamePositions(orig.G.identifiedThreats) = {<<1, 1, 1>>}
        /\ Has(GameRecord(orig.G.identifiedThreats, <<1, 1, 1>>), "owner")
        /\ GameRecord(orig.G.identifiedThreats, <<1, 1, 1>>).owner = <<"5">>
        /\ ~Has(threats[r][1], "owner")

\* C12: every record the merge appends to a cell has status "Open", the
\* gameplay threat's description, mitigation, severity and title or "" for
\* a missing one, the gameplay threat's id, and the match identifier of the
\* request as game.
C12_MergedRecord ==
    \A r \in Requests :
        Done(r, "json") /\ StructuredMatch(orig) /\ resp[r].status = 200
        => \A c \in CellPositions(orig.model) :
              LET recorded == RecordedFor(orig.model, orig.G.identifiedThreats, c)
              IN  /\ Len(Appended(r, c)) = Len(recorded)
                  /\ \A n \in 1..Len(recorded) :
                        LET rec == recorded[n].val
                            new == Appended(r, c)[n]
                        IN  /\ new.status = "Open"
                            /\ new.description = OrElse(rec, "description", <<>>)
                            /\ new.mitigation = OrElse(rec, "mitigation", <<>>)
                            /\ new.severity = OrElse(rec, "severity", <<>>)
                            /\ new.title = OrElse(rec, "title", <<>>)
                            /\ Has(new, "id") = Has(rec, "id")
                            /\ Has(rec, "id") => new.id = rec.id
                            /\ new.game = game[r].matchID
                            /\ new.game = orig.matchID

\* a record without any field is merged with the defaults, although the
\* record carried a status of its own
C12_Witness ==
    \E r \in Requests :
        /\ Done(r, "json") /\ StructuredMatch(orig) /\ resp[r].status = 200
        /\ \E c \in CellPositions(orig.model) :
              /\ Len(Appended(r, c)) = 1
              /\ RecordedFor(orig.model, orig.G.identifiedThreats, c)[1].val
                    = [status |-> "Mitigated"]
              /\ Appended(r, c)[1].status = "Open"
              /\ Appended(r, c)[1].severity = <<>>

\* the lines of a text: the pieces between its "\n"
RECURSIVE SplitLines(_)
SplitLines(text) ==
    LET breaks == {k \in 1..Len(text) : text[k] = "\n"}
        first == CHOOSE k \in breaks : \A j \in breaks : k <= j
    IN  IF breaks = {} THEN <<text>>
        ELSE <<SubSeq(text, 1, first - 1)>>
             \o SplitLines(SubSeq(text, first + 1, Len(text)))

\* the lines of the report the Markdown export answered with
ReportLines(r) == SplitLines(resp[r].body)

IsPrefix(p, text) == Len(p) <= Len(text) /\ SubSeq(text, 1, Len(p)) = p

\* the lines that open a block: after the three lines of the heading, the
\* lines that begin with a number
BlockStarts(lines) ==
    {k \in 4..Len(lines) : lines[k] # <<>> /\ Head(lines[k]) \in Digits}

\* the line that opens the i-th block
BlockStart(lines, i) ==
    CHOOSE k \in BlockStarts(lines) :
        Cardinality({j \in BlockStarts(lines) : j <= k}) = i

\* the lines of the i-th block after its first line
OptionLines(lines, i) ==
    SubSeq(lines, BlockStart(lines, i) + 1,
           IF i < Cardinality(BlockStarts(lines))
           THEN BlockStart(lines, i + 1) - 1
           ELSE Len(lines) - 1)

Label(name) == <<" ", " ", " ", " ", "-", " ", "*">> \o name \o <<":", "*", " ">>

CategoryLabel == Label(<<"C", "a", "t", "e", "g", "o", "r", "y">>)
SeverityLabel == Label(<<"S", "e", "v", "e", "r", "i", "t", "y">>)
AuthorLabel == Label(<<"A", "u", "t", "h", "o", "r">>)
DescriptionLabel == Label(<<"D", "e", "s", "c", "r", "i", "p", "t", "i", "o", "n">>)
MitigationLabel == Label(<<"M", "i", "t", "i", "g", "a", "t", "i", "o", "n">>)

\* place of a line in the fixed order of the optional lines, 0 for a line
\* that is none of them
LabelOrder(line) ==
    IF IsPrefix(CategoryLabel, line) THEN 1
    ELSE IF IsPrefix(SeverityLabel, line) THEN 2
    ELSE IF IsPrefix(AuthorLabel, line) THEN 3
    ELSE IF IsPrefix(DescriptionLabel, line) THEN 4
    ELSE IF IsPrefix(MitigationLabel, line) THEN 5
    ELSE 0

\* "<i>. **"
BlockNumber(i) == NumberToString(i) \o <<".", " ", "*", "*">>

\* C13: the report is the line "Threats <date>", the underline, an empty
\* line and then one block per threat of the list, in list order, the i-th
\* opened by "<i>. **<title>**"; the other lines of a block are optional
\* lines in the order category, severity, author, description,
\* mitigation.
C13_ReportTemplate ==
    \A r \in Requests :
        Done(r, "md")
        => LET lines == ReportLines(r)
               n == Len(threats[r])
           IN  /\ Len(lines) >= 5
               /\ lines[1] = <<"T", "h", "r", "e", "a", "t", "s", " ">> \o LocaleNow
               /\ lines[2] = <<"=", "=", "=", "=", "=", "=", "=">>
               /\ lines[3] = <<>>
               /\ lines[Len(lines)] = <<>>
               /\ Cardinality(BlockStarts(lines)) = n
               /\ n = 0 => lines = <<lines[1], lines[2], <<>>, <<>>, <<>> >>
               /\ n > 0 => BlockStart(lines, 1) = 4
               /\ \A i \in 1..n :
                     LET opts == OptionLines(lines, i)
                     IN  /\ IsPrefix(BlockNumber(i), lines[BlockStart(lines, i)])
                         /\ Has(threats[r][i], "title")
                            => lines[BlockStart(lines, i)]
                                 = BlockNumber(i)
                                   \o escapeMarkdownText(Trim(threats[r][i].title))
                                   \o <<"*", "*">>
                         /\ \A j \in 1..Len(opts) : LabelOrder(opts[j]) >= 1
                         /\ \A j \in 1..(Len(opts) - 1) :
                               LabelOrder(opts[j]) < LabelOrder(opts[j + 1])

\* three blocks, one of them with all five optional lines
C13_Witness ==
    \E r \in Requests :
        /\ Done(r, "md")
        /\ Len(threats[r]) = 3
        /\ Cardinality(BlockStarts(ReportLines(r))) = 3
        /\ \E i \in 1..3 : Len(OptionLines(ReportLines(r), i)) = 5
        /\ IsPrefix(BlockNumber(3), ReportLines(r)[BlockStart(ReportLines(r), 3)])

NoTitleGiven ==
    <<"N", "o", " ", "t", "i", "t", "l", "e", " ", "g", "i", "v", "e", "n">>

\* C14 as stated: a threat whose title is missing, empty or white space only
\* is reported under the title "No title given".
C14_BlankTitleReplaced ==
    \A r \in Requests :
        Done(r, "md")
        => \A i \in 1..Len(threats[r]) :
              (~Has(threats[r][i], "title") \/ Trim(threats[r][i].title) = <<>>)
              => ReportLines(r)[BlockStart(ReportLines(r), i)]
                    = BlockNumber(i) \o NoTitleGiven \o <<"*", "*">>

\* C15: the block of a threat has a mitigation line exactly when the threat
\* has a mitigation and it is not the text "No mitigation provided."; the
\* empty mitigation has its line.
C15_MitigationLine ==
    \A r \in Requests :
        Done(r, "md")
        => \A i \in 1..Len(threats[r]) :
              LET opts == OptionLines(ReportLines(r), i)
                  t == threats[r][i]
              IN  (\E j \in 1..Len(opts) : LabelOrder(opts[j]) = 5)
                  <=> (Has(t, "mitigation") /\ t.mitigation # NoMitigation)

\* one report with a mitigation line in its first block and none in the
\* blocks whose mitigation is the sentinel
C15_Witness ==
    \E r \in Requests :
        /\ Done(r, "md")
        /\ Len(threats[r]) = 3
        /\ threats[r][2].mitigation = NoMitigation
        /\ \A j \in 1..Len(OptionLines(ReportLines(r), 3)) :
              LabelOrder(OptionLines(ReportLines(r), 3)[j]) # 5
        /\ \A j \in 1..Len(OptionLines(ReportLines(r), 2)) :
              LabelOrder(OptionLines(ReportLines(r), 2)[j]) # 5
        /\ \E j \in 1..Len(OptionLines(ReportLines(r), 1)) :
              LabelOrder(OptionLines(ReportLines(r), 1)[j]) = 5

\* the empty mitigation is reported as a line with nothing after the label
C15_EmptyWitness ==
    \E r \in Requests :
        /\ Done(r, "md")
        /\ Len(threats[r]) = 3
        /\ threats[r][2].mitigation = <<>>
        /\ \E j \in 1..Len(OptionLines(ReportLines(r), 2)) :
              OptionLines(ReportLines(r), 2)[j] = MitigationLabel

\* characters of the escaped text that stand for one character of the text
EscapedWidth(c) ==
    IF c \in {"!", "[", "]", "(", ")"} THEN 2
    ELSE IF c \in {"<", ">"} THEN 4
    ELSE 1

\* characters of the escaped text before the i-th character of the text
RECURSIVE EscapedOffset(_, _)
EscapedOffset(text, i) ==
    IF i <= 1 THEN 0
    ELSE EscapedOffset(text, i - 1) + EscapedWidth(text[i - 1])

\* e is text with a backslash before each of ! [ ] ( ), &lt; for < and
\* &gt; for >, and every other character as it is, in the same order
IsEscapeOf(e, text) ==
    /\ Len(e) = EscapedOffset(text, Len(text) + 1)
    /\ \A i \in 1..Len(text) :
          LET o == EscapedOffset(text, i)
              c == text[i]
          IN  IF c \in {"!", "[", "]", "(", ")"}
              THEN e[o + 1] = "\\" /\ e[o + 2] = c
              ELSE IF c = "<" THEN SubSeq(e, o + 1, o + 4) = <<"&", "l", "t", ";">>
              ELSE IF c = ">" THEN SubSeq(e, o + 1, o + 4) = <<"&", "g", "t", ";">>
              ELSE e[o + 1] = c

\* C16: the description line of a block is the label followed by the
\* description with a backslash before each ! [ ] ( ), < as &lt;, > as
\* &gt; and all other characters, * and _ among them, unchanged (for
\* descriptions without line breaks, which are collapsed before).
C16_EscapeMarkdownText ==
    \A r \in Requests :
        Done(r, "md")
        => \A i \in 1..Len(threats[r]) :
              LET opts == OptionLines(ReportLines(r), i)
                  t == threats[r][i]
              IN  Has(t, "description")
                  /\ (\A k \in 1..Len(t.description) : t.description[k] \notin LineBreaks)
                  => \E j \in 1..Len(opts) :
                        /\ IsPrefix(DescriptionLabel, opts[j])
                        /\ IsEscapeOf(SubSeq(opts[j], Len(DescriptionLabel) + 1,
                                             Len(opts[j])),
                                      t.description)

\* "*<" is reported as "*&lt;" and "](" as "\]\("
C16_Witness ==
    \E r \in Requests :
        /\ Done(r, "md")
        /\ Len(threats[r]) = 1
        /\ threats[r][1].description = <<"]", "(">>
        /\ \E j \in 1..Len(OptionLines(ReportLines(r), 1)) :
              OptionLines(ReportLines(r), 1)[j]
                = DescriptionLabel \o <<"\\", "]", "\\", "(">>

C16_EmphasisWitness ==
    \E r \in Requests :
        /\ Done(r, "md")
        /\ Len(threats[r]) = 1
        /\ threats[r][1].description = <<"*", "<">>
        /\ \E j \in 1..Len(OptionLines(ReportLines(r), 1)) :
              OptionLines(ReportLines(r), 1)[j]
                = DescriptionLabel \o <<"*", "&", "l", "t", ";">>

\* text with a hyphen in the place of every space
Hyphenated(text) ==
    [k \in 1..Len(text) |-> IF text[k] = " " THEN "-" ELSE text[k]]

\* text without its characters of the set cs
Removing(text, cs) == SelectSeq(text, LAMBDA c : c \notin cs)

\* the instant of the export as toISOString gives it, with the first colon
\* and with every colon replaced by a hyphen
IsoFirstColonReplaced ==
    <<"2", "0", "2", "6", "-", "1", "1", "-", "0", "1", "T", "1", "0", "-",
      "2", "0", ":", "3", "0", ".", "0", "0", "0", "Z">>
IsoColonsReplaced ==
    <<"2", "0", "2", "6", "-", "1", "1", "-", "0", "1", "T", "1", "0", "-",
      "2", "0", "-", "3", "0", ".", "0", "0", "0", "Z">>

\* C17 as stated: the attachment of the JSON export is named after the
\* document title with every space replaced by a hyphen, then "-", the ISO
\* timestamp with its first colon replaced, and ".json"; no space of the
\* title remains.
C17_JsonFilename ==
    \A r \in Requests :
        Done(r, "json") /\ resp[r].status = 200
        => /\ resp[r].attachment
                = Hyphenated(orig.model.summary.title) \o <<"-">>
                  \o IsoFirstColonReplaced \o <<".", "j", "s", "o", "n">>
           /\ \A k \in 1..Len(resp[r].attachment) : resp[r].attachment[k] # " "

\* the slug the Markdown export names its attachment after, as C18 states
\* it: spaces removed from the title, white space removed from the game mode
StatedSlug(m) ==
    IF IsStructured(m) THEN Removing(m.model.summary.title, {" "})
    ELSE IF Has(m.G, "gameMode") THEN Removing(m.G.gameMode, WhiteSpace)
    ELSE <<>>

\* the same, with the title trimmed and hyphens for its spaces
HyphenSlug(m) ==
    IF IsStructured(m) THEN Hyphenated(Trim(m.model.summary.title))
    ELSE IF Has(m.G, "gameMode") THEN Removing(Trim(m.G.gameMode), {" "})
    ELSE <<>>

\* C18 as stated: the attachment of the Markdown export is
\* "threats-<slug>-<timestamp>.md", the timestamp with all colons replaced,
\* the slug being the document title without its spaces for a structured
\* document, else the game-mode name without white space, else empty.
C18_MarkdownFilenameSpacesRemoved ==
    \A r \in Requests :
        Done(r, "md")
        => resp[r].attachment
             = <<"t", "h", "r", "e", "a", "t", "s", "-">> \o StatedSlug(orig)
               \o <<"-">> \o IsoColonsReplaced \o <<".", "m", "d">>

\* C18 as amended: the slug is the document title, trimmed, with every
\* space replaced by a hyphen for a structured document, else the game-mode
\* name, trimmed, without its spaces, else empty.
C18_MarkdownFilename ==
    \A r \in Requests :
        Done(r, "md")
        => resp[r].attachment
             = <<"t", "h", "r", "e", "a", "t", "s", "-">> \o HyphenSlug(orig)
               \o <<"-">> \o IsoColonsReplaced \o <<".", "m", "d">>

\* a structured document whose title has spaces inside and around
C18_Witness ==
    \E r \in Requests :
        /\ Done(r, "md")
        /\ IsStructured(orig)
        /\ orig.model.summary.title = <<" ", "a", " ", " ", "b", " ">>
        /\ IsPrefix(<<"t", "h", "r", "e", "a", "t", "s", "-", "a", "-", "-", "b", "-", "2">>,
                    resp[r].attachment)

\* no structured document: the game mode without its spaces, or nothing
C18_GameModeWitness ==
    \E r \in Requests :
        /\ Done(r, "md")
        /\ orig.model = ImagePlaceholder
        /\ Has(orig.G, "gameMode") /\ orig.G.gameMode = CORNUCOPIA
        /\ IsPrefix(<<"t", "h", "r", "e", "a", "t", "s", "-", "O", "W", "A", "S", "P",
                      "C", "o", "r", "n", "u", "c", "o", "p", "i", "a", "-", "2">>,
                    resp[r].attachment)

C18_NoModeWitness ==
    \E r \in Requests :
        /\ Done(r, "md")
        /\ orig.model = ImagePlaceholder
        /\ ~Has(orig.G, "gameMode")
        /\ IsPrefix(<<"t", "h", "r", "e", "a", "t", "s", "-", "-", "2">>,
                    resp[r].attachment)

-----------------------------------------------------------------------------
(* The records of a rendering *)

\* the cells of a diagram, none when it has no list of cells
CellsOf(d) == IF Has(d, "cells") THEN d.cells ELSE <<>>

\* the cell has the field, with a value
Present(cell, f) == Has(cell, f) /\ ~Nullish(cell[f])

IsNodeCell(cell) == Present(cell, "position") /\ Present(cell, "size")

IsEdgeCell(cell) ==
    ~IsNodeCell(cell) /\ (Present(cell, "source") \/ Present(cell, "target"))

Classifiable(cell) == IsNodeCell(cell) \/ IsEdgeCell(cell)

\* the cells a rendering has a record for, in the order of the diagram
Classified(d) == SelectSeq(CellsOf(d), Classifiable)

\* the record is the node record of the cell: its id, position and size
IsNodeRecordOf(record, cell) ==
    /\ Get(record, "id") = Get(cell, "id")
    /\ Has(record, "position") /\ record.position = cell.position
    /\ Has(record, "size") /\ record.size = cell.size
    /\ ~Has(record, "source") /\ ~Has(record, "target")

\* the record is the edge record of the cell
IsEdgeRecordOf(record, cell) ==
    /\ Get(record, "id") = Get(cell, "id")
    /\ Has(record, "source") /\ Has(record, "target") /\ Has(record, "vertices")
    /\ ~Has(record, "position") /\ ~Has(record, "size")

\* the records are those of the classifiable cells of the diagram, in order
RecordsOf(records, d) ==
    /\ Len(records) = Len(Classified(d))
    /\ \A i \in 1..Len(records) :
            IF IsNodeCell(Classified(d)[i])
            THEN IsNodeRecordOf(records[i], Classified(d)[i])
            ELSE IsEdgeRecordOf(records[i], Classified(d)[i])

\* C19: every rendering of a diagram puts out, in the order of the cells,
\* exactly one record per cell that has both position and size (a node record
\* with the id, position and size of the cell) or else has a source or a
\* target (an edge record), and no record for any other cell; so a diagram of
\* fully specified node cells keeps its count, ids, positions and sizes.
C19_RecordPerClassifiableCell ==
    \A k \in 1..Len(graphs) :
        /\ ~graphs[k].raised
        /\ RecordsOf(graphs[k].cells, origShown)

\* Every rendering that returns puts out the records C19 tells of.
C19_ReturnedRecords ==
    \A k \in 1..Len(graphs) :
        ~graphs[k].raised => RecordsOf(graphs[k].cells, origShown)

\* a diagram of two fully specified node cells is rendered
C19_ReturnedWitness ==
    /\ origShown # Null
    /\ Len(CellsOf(origShown)) = 2
    /\ \A i \in 1..2 : IsNodeCell(CellsOf(origShown)[i])
    /\ Len(graphs) > 0 /\ ~graphs[1].raised
    /\ Len(graphs[1].cells) = 2

\* C20: no rendering of a diagram with malformed cells throws: the cells that
\* are neither node nor edge are dropped and every other cell of the diagram
\* has its record in the output.
C20_NeverThrows ==
    \A k \in 1..Len(graphs) :
        /\ ~graphs[k].raised
        /\ Len(graphs[k].cells) = Len(Classified(origShown))
        /\ \A i \in 1..Len(graphs[k].cells) :
                Get(graphs[k].cells[i], "id") = Get(Classified(origShown)[i], "id")

\* Renderings that throw are those of a diagram with a cell whose attrs.text
\* is neither an object nor missing, a label list that is no list or holds
\* null, or a vertex that is null.
C20_ThrowingWitness ==
    /\ Len(graphs) > 0 /\ graphs[1].raised
    /\ Len(Classified(origShown)) = 2

\* C21: a rendering has no side effect on its input: after every call the
\* diagram and each of its cells, with the attrs of the cell and the text
\* object within them, are what they were before the call, and two calls on
\* the same diagram return equal graphs.
C21_NoSideEffects ==
    /\ shown = origShown
    /\ \A j, k \in 1..Len(graphs) : graphs[j] = graphs[k]

\* Two renderings of the same diagram that return, return equal graphs.
C21_RepeatedCallsEqual ==
    \A j, k \in 1..Len(graphs) :
        ~graphs[j].raised /\ ~graphs[k].raised => graphs[j].cells = graphs[k].cells

\* a diagram is rendered twice, and the first rendering wrote to its input
C21_RepeatedWitness ==
    /\ Len(graphs) = 2
    /\ ~graphs[1].raised /\ ~graphs[2].raised
    /\ graphs[1].cells # <<>>
    /\ shown # origShown

-----------------------------------------------------------------------------
(* The rendering type *)

\* x is a string that starts with "tm."
Prefixed(x) ==
    /\ TypeOf(x) = "string"
    /\ Len(x.string) >= 3
    /\ x.string[1] = "t" /\ x.string[2] = "m" /\ x.string[3] = "."

\* the data.type of a cell, undefined when the cell has no data or no type
DataTypeOf(cell) ==
    IF Has(cell, "data") /\ TypeOf(cell.data) = "object" /\ Has(cell.data.object, "type")
    THEN cell.data.object.type
    ELSE JsUndefined

\* the shape table: shape, type
ShapeTable ==
    {<<shapes.process, tm.Process>>, <<shapes.actor, tm.Actor>>,
     <<shapes.store, tm.Store>>, <<shapes.flow, tm.Flow>>,
     <<shapes.trustBoundaryCurve, tm.Boundary>>, <<shapes.trustBoundaryBox, tm.Boundary>>}

\* the cell has one of the shapes of the table
TableShape(cell) ==
    /\ Has(cell, "shape") /\ TypeOf(cell.shape) = "string"
    /\ \E e \in ShapeTable : e[1] = cell.shape.string

\* the record and the cell it was made of, for every record of every
\* rendering that returned
Rendered ==
    {<<graphs[k].cells[i], Classified(origShown)[i]>> :
        k \in {j \in 1..Len(graphs) : ~graphs[j].raised},
        i \in 1..Len(Classified(origShown))}

\* C22: the type of the record of a cell is the data.type of the cell when
\* that is a string starting with "tm.", with tm.BoundaryBox turned into
\* tm.Boundary and tm.Text into tm.Process, whatever the shape; and otherwise
\* the type the shape table gives for the shape of the cell, tm.Process for a
\* shape the table does not have.
C22_RenderingType ==
    \A r \in Rendered :
        LET type == r[1].type.string
            dataType == DataTypeOf(r[2])
        IN  /\ Prefixed(dataType) /\ dataType.string \notin {tm.BoundaryBox, tm.Text}
                => type = dataType.string
            /\ Prefixed(dataType) /\ dataType.string = tm.BoundaryBox => type = tm.Boundary
            /\ Prefixed(dataType) /\ dataType.string = tm.Text => type = tm.Process
            /\ ~Prefixed(dataType) /\ TableShape(r[2])
                => <<r[2].shape.string, type>> \in ShapeTable
            /\ ~Prefixed(dataType) /\ ~TableShape(r[2]) => type = tm.Process

\* a cell of shape store and data.type tm.BoundaryBox is rendered as tm.Boundary
C22_Witness ==
    \E r \in Rendered :
        /\ TableShape(r[2]) /\ r[2].shape.string = shapes.store
        /\ DataTypeOf(r[2]) = JsStr(tm.BoundaryBox)
        /\ r[1].type = JsStr(tm.Boundary)

\* a cell of shape trust-boundary-curve whose data.type lacks the prefix is
\* rendered as tm.Boundary
C22_ShapeWitness ==
    \E r \in Rendered :
        /\ TableShape(r[2]) /\ r[2].shape.string = shapes.trustBoundaryCurve
        /\ DataTypeOf(r[2]) = JsStr(shapes.actor)
        /\ r[1].type = JsStr(tm.Boundary)

\* a cell of a shape the table does not have and no data.type is rendered as
\* tm.Process
C22_DefaultWitness ==
    \E r \in Rendered :
        /\ ~TableShape(r[2]) /\ Has(r[2], "shape")
        /\ TypeOf(DataTypeOf(r[2])) = "undefined"
        /\ r[1].type = JsStr(tm.Process)

\* C23: classification is idempotent: a cell of the shape of a rendered cell
\* whose data.type is the type of its record is given that same type.
C23_ClassificationIdempotent ==
    \A r \in Rendered :
        mapToJointType(Get(r[2], "shape"), r[1].type) = r[1].type.string

\* a cell whose type the first classification changed is rendered
C23_Witness ==
    \E r \in Rendered :
        /\ DataTypeOf(r[2]) = JsStr(tm.Text)
        /\ r[1].type = JsStr(tm.Process)
        /\ mapToJointType(Get(r[2], "shape"), r[1].type) = tm.Process

-----------------------------------------------------------------------------
(* The label of a rendered cell *)

\* cell.attrs.f.text, undefined when one of them is missing
AttrText(cell, f) == OptProp(Prop(Get(cell, "attrs"), f), "text")

\* x is a string with a character other than white space
GivenText(x) ==
    TypeOf(x) = "string" /\ \E i \in 1..Len(x.string) : x.string[i] \notin WhiteSpace

\* the resolved name: data.name, else attrs.text.text, else attrs.label.text,
\* the first of them that is a string and not blank, else ""
ResolvedName(cell) ==
    LET name == OptProp(Get(cell, "data"), "name")
    IN  IF GivenText(name) THEN name.string
        ELSE IF GivenText(AttrText(cell, "text")) THEN AttrText(cell, "text").string
        ELSE IF GivenText(AttrText(cell, "label")) THEN AttrText(cell, "label").string
        ELSE <<>>

\* the text a value shows: that of a string, none otherwise
Shown(x) == IF TypeOf(x) = "string" THEN x.string ELSE <<>>

\* the attrs of the record are those of the cell but for text.text
AttrsCopied(record, cell) ==
    LET from == Get(cell, "attrs")
        to == Get(record, "attrs")
    IN  /\ TypeOf(to) = "object"
        /\ TypeOf(from) = "object" =>
            /\ \A f \in DOMAIN from.object \ {"text"} :
                    Has(to.object, f) /\ to.object[f] = from.object[f]
            /\ TypeOf(Prop(from, "text")) = "object" =>
                    \A f \in DOMAIN from.object.text.object \ {"text"} :
                        Prop(Prop(to, "text"), f) = from.object.text.object[f]

\* C24: the attrs of a rendered cell are a copy of those of the cell in which
\* attrs.text.text is the resolved name exactly when the cell's attrs.text.text
\* is not a non-empty string: a non-empty string stays as it is, and a
\* missing one, one that is no string and the empty string are replaced by
\* the resolved name.
C24_LabelNormalized ==
    \A r \in Rendered :
        LET slot == AttrText(r[2], "text")
            out == AttrText(r[1], "text")
        IN  /\ AttrsCopied(r[1], r[2])
            /\ IF TypeOf(slot) = "string" /\ slot.string # <<>>
               THEN out = slot
               ELSE Shown(out) = ResolvedName(r[2])

\* The attrs of a rendered cell are a copy of those of the cell in which
\* attrs.text.text is the resolved name when the cell's attrs.text.text is no
\* string and the resolved name is not empty; a string, the empty one
\* included, stays as it is.
C24_StringKept ==
    \A r \in Rendered :
        LET slot == AttrText(r[2], "text")
            out == AttrText(r[1], "text")
        IN  /\ AttrsCopied(r[1], r[2])
            /\ IF TypeOf(slot) = "string"
               THEN out = slot
               ELSE Shown(out) = ResolvedName(r[2])

\* a cell with a name, a label and a text slot that holds a number is
\* rendered with the name in the slot
C24_StringKeptWitness ==
    \E r \in Rendered :
        /\ TypeOf(AttrText(r[2], "text")) = "number"
        /\ GivenText(AttrText(r[2], "label"))
        /\ ResolvedName(r[2]) = <<"N">>
        /\ AttrText(r[1], "text") = JsStr(<<"N">>)

=============================================================================
